---- MODULE Spec2Model ----
(***************************************************************************)
(* Model of the workflow graph engine: app/core/state.py,                  *)
(* app/core/workflow_engine.py, the tool registry of app/core/tools.py,    *)
(* the background execution path and the persistence listener of           *)
(* app/api/endpoints.py and the run store of app/storage/sqlite_store.py.  *)
(*                                                                         *)
(* One action is one stretch of code between two suspension points of the *)
(* coroutine that drives a run (an event emission with its listeners, the  *)
(* sleep before a tool call, the tool call itself, a save).                *)
(***************************************************************************)
EXTENDS Integers, Sequences, FiniteSets, TLC

VARIABLES graphs, runs, pc, path, current_node, visited_nodes, iterations,
          exc, kwargs, events, store, save_failures, request,
          event_listeners, emission, listener_errors, graph_store, reply,
          run_graph

vars == <<graphs, runs, pc, path, current_node, visited_nodes, iterations,
          exc, kwargs, events, store, save_failures, request,
          event_listeners, emission, listener_errors, graph_store, reply,
          run_graph>>

\* the listener list of the engine and the record of its emit_event calls
listenerVars == <<event_listeners, emission, listener_errors>>

(***************************************************************************)
(* Bounds of the model.                                                    *)
(***************************************************************************)
\* number of edges of a generated graph definition
MaxEdges == 2
\* number of calls of save_workflow_run that fail
MaxSaveFailures == 1
\* number of nodes of the long chain graph (one more than the ceiling)
ChainLen == 101
\* number of listeners registered with the engine
MaxListeners == 2
\* graphs that create_graph can add to the table
MaxGraphs == 2
\* node executions of a run handed to the store
MaxExecutions == 2
\* distinct readings of the clock in the executions of such a run
MaxClock == 2
\* calls of save_workflow_run on such a run
MaxSaves == 2

(***************************************************************************)
(* Python values.  None for the string-valued optional fields is Null; a   *)
(* value held in a state mapping or returned by a tool is a tagged record. *)
(***************************************************************************)
Null == "null"
Stamp == "now"

PyNone == [t |-> "none", n |-> 0, s |-> ""]
PyInt(i) == [t |-> "int", n |-> i, s |-> ""]
PyStr(str) == [t |-> "str", n |-> 0, s |-> str]

\* the list [str]: a value that holds a string without being one
PyList(str) == [t |-> "list", n |-> 0, s |-> str]
\* the list []: n tells it from a list [str]
PyEmptyList == [t |-> "list", n |-> -1, s |-> ""]
\* True and False
PyBool(b) == [t |-> "bool", n |-> IF b THEN 1 ELSE 0, s |-> ""]

\* the keys a state reference can name
StateKeys ==
    {"x", "y", "z", "input_text", "split_text_result", "chunk_summaries",
     "merge_summaries_result", "llm_refine_summary_result", "target_length"}

\* the string "$state.<key>"
StateRef(key) == "$state." \o key
\* isinstance(value, str) and value.startswith("$state.")
IsStateRef(value) == value.t = "str" /\ \E k \in StateKeys : value.s = StateRef(k)
\* value[7:]
RefKey(value) == CHOOSE k \in StateKeys : value.s = StateRef(k)

\* a tool result: a dict (merged into the state) or any other value
DictResult(d) == [kind |-> "dict", d |-> d]
ValResult(v) == [kind |-> "val", v |-> v]

(***************************************************************************)
(* app/core/state.py                                                       *)
(***************************************************************************)
NodeStatus == {"pending", "running", "completed", "failed", "skipped"}

\* WorkflowState.get: self.data.get(key, None)
StateGet(data, key) == IF key \in DOMAIN data THEN data[key] ELSE PyNone

\* WorkflowState.set: self.data[key] = value
StateSet(data, key, value) ==
    [k \in (DOMAIN data) \cup {key} |-> IF k = key THEN value ELSE data[k]]

\* StateUpdate that replaces the mapping instead of merging into it
StateUpdateReplacing(data, updates) == updates

\* WorkflowState.update: self.data.update(updates)
StateUpdate(data, updates) ==
    [k \in (DOMAIN data) \cup (DOMAIN updates) |->
        IF k \in DOMAIN updates THEN updates[k] ELSE data[k]]

NoOutput == [none |-> TRUE]

\* NodeExecution(node_id=node_id) with the defaults of the class
NodeExecution(node_id) ==
    [node_id |-> node_id, status |-> "pending", started_at |-> Null,
     completed_at |-> Null, error |-> Null, output |-> NoOutput]

\* WorkflowRun(run_id, graph_id, initial_state, current_state) with the
\* defaults of the class
WorkflowRun(run_id, graph_id, initial_state) ==
    [run_id |-> run_id, graph_id |-> graph_id, status |-> "pending",
     initial_state |-> initial_state, current_state |-> initial_state,
     node_executions |-> <<>>, completed_at |-> Null,
     current_node |-> Null, error |-> Null]

(***************************************************************************)
(* ConditionalRouter.create_condition                                      *)
(***************************************************************************)
NoCondition == [type |-> "none", key |-> "", value |-> PyNone]
Condition(type, key, value) == [type |-> type, key |-> key, value |-> value]

OrderingTypes == {"gt", "lt", "gte", "lte"}

\* comparison_value of condition_func
ComparisonValue(cond, data) ==
    IF IsStateRef(cond.value) THEN StateGet(data, RefKey(cond.value))
    ELSE cond.value

\* an ordering comparison of two values of different types raises TypeError
ConditionRaises(cond, data) ==
    LET state_value == StateGet(data, cond.key)
        comparison_value == ComparisonValue(cond, data)
    IN  /\ cond.type \in OrderingTypes
        /\ state_value # PyNone
        /\ comparison_value # PyNone
        /\ state_value.t # comparison_value.t

\* the strings of the model in Python's (code point) order
SortedStrings == <<"", "$state.x", "$state.y", "$state.z", "done">>
StrRank(str) == CHOOSE i \in 1..Len(SortedStrings) : SortedStrings[i] = str

\* a < b for two values of the same type
Less(a, b) == IF a.t = "int" THEN a.n < b.n ELSE StrRank(a.s) < StrRank(b.s)

\* OrderedCondition without the two `is not None` tests: None is below
\* every value
OrderedConditionNoneLeast(type, state_value, comparison_value) ==
    LET less(a, b) == IF a = PyNone THEN b # PyNone
                      ELSE IF b = PyNone THEN FALSE ELSE Less(a, b)
    IN  CASE type = "gt" -> less(comparison_value, state_value)
          [] type = "lt" -> less(state_value, comparison_value)
          [] type = "gte" -> ~less(state_value, comparison_value)
          [] type = "lte" -> ~less(comparison_value, state_value)

\* the branches gt, lt, gte and lte of condition_func
OrderedCondition(type, state_value, comparison_value) ==
    LET both == state_value # PyNone /\ comparison_value # PyNone
    IN  CASE type = "gt" -> both /\ Less(comparison_value, state_value)
          [] type = "lt" -> both /\ Less(state_value, comparison_value)
          [] type = "gte" -> both /\ ~Less(state_value, comparison_value)
          [] type = "lte" -> both /\ ~Less(comparison_value, state_value)

\* ExistsCondition that tests the truth of the value: 0 and "" count as
\* absent
ExistsConditionTruthy(state_value) ==
    state_value \notin {PyNone, PyInt(0), PyStr("")}

\* the branch exists of condition_func: state_value is not None
ExistsCondition(state_value) == state_value # PyNone

\* UnknownCondition that lets the edge match
UnknownConditionMatches(state_value, comparison_value) == TRUE

\* the else branch of condition_func
UnknownCondition(state_value, comparison_value) == FALSE

\* condition_func(state), when it does not raise
ConditionFunc(cond, data) ==
    LET state_value == StateGet(data, cond.key)
        comparison_value == ComparisonValue(cond, data)
    IN  CASE cond.type = "eq" -> state_value = comparison_value
          [] cond.type \in OrderingTypes ->
                OrderedCondition(cond.type, state_value, comparison_value)
          [] cond.type = "exists" -> ExistsCondition(state_value)
          [] cond.type = "not_exists" -> state_value = PyNone
          [] OTHER -> UnknownCondition(state_value, comparison_value)

(***************************************************************************)
(* ToolRegistry (app/core/tools.py)                                        *)
(***************************************************************************)
\* the names in tool_registry._tools: five tools that stand for any tool,
\* and the tools of the summarization workflow
RegisteredTools ==
    {"set_x", "set_xy", "say", "none", "echo", "split_text",
     "process_chunks_llm", "merge_summaries", "llm_refine_summary",
     "llm_quality_assessment", "finalize_summary"}

\* what tool(**kwargs) can return; any call can raise instead.  A text is
\* "" or one text, a list is [] or one list: the tools of the workflow
\* branch on nothing else, and what the language model answers is open
ToolResults(name, kw) ==
    LET has(keys) == keys \subseteq DOMAIN kw
        \* `not value`
        falsy(value) == value \in {PyNone, PyStr(""), PyEmptyList}
        texts == {PyStr(""), PyStr("summary")}
        length(text) == PyInt(IF text = PyStr("") THEN 0 ELSE 7)
        \* the assessment of llm_quality_assessment
        assessment(text, needs_refinement) ==
            DictResult(("summary_length" :> length(text))
                @@ ("needs_refinement" :> PyBool(needs_refinement))
                @@ ("final_summary" :> text)
                @@ ("target_length" :> kw["target_length"]))
    IN  CASE name = "set_x" -> {DictResult("x" :> PyInt(1))}
          [] name = "set_xy" -> {DictResult(("x" :> PyInt(2)) @@ ("y" :> PyInt(1)))}
          [] name = "say" -> {ValResult(PyStr("done"))}
          [] name = "none" -> {ValResult(PyNone)}
          [] name = "echo" ->
                IF DOMAIN kw = {"v"} THEN {ValResult(kw["v"])} ELSE {}
          [] name = "split_text" ->
                IF ~has({"text"}) THEN {}
                ELSE IF falsy(kw["text"]) THEN {ValResult(PyEmptyList)}
                ELSE {ValResult(PyList("chunk"))}
          \* len(chunks) comes first
          [] name = "process_chunks_llm" ->
                IF ~has({"chunks"}) \/ kw["chunks"] = PyNone THEN {}
                ELSE IF falsy(kw["chunks"])
                THEN {DictResult("chunk_summaries" :> PyEmptyList)}
                ELSE {DictResult("chunk_summaries" :> PyList("summary"))}
          \* len(summaries) comes first
          [] name = "merge_summaries" ->
                IF ~has({"summaries"}) \/ kw["summaries"] = PyNone THEN {}
                ELSE IF falsy(kw["summaries"]) THEN {ValResult(PyStr(""))}
                ELSE {ValResult(text) : text \in texts}
          [] name = "llm_refine_summary" ->
                IF ~has({"original_text", "summary"}) THEN {}
                ELSE IF falsy(kw["summary"]) THEN {ValResult(PyStr(""))}
                ELSE {ValResult(text) : text \in texts}
          \* len(original_text) and len(summary) come first; a summary that
          \* is not empty is divided by target_length
          [] name = "llm_quality_assessment" ->
                IF \/ ~has({"original_text", "summary", "target_length"})
                   \/ PyNone \in {kw["original_text"], kw["summary"]}
                THEN {}
                ELSE IF falsy(kw["summary"])
                THEN {DictResult(("summary_length" :> PyInt(0))
                        @@ ("needs_refinement" :> PyBool(TRUE))
                        @@ ("final_summary" :> PyStr("")))}
                ELSE IF kw["target_length"].t # "int" THEN {}
                ELSE {assessment(kw["summary"], needs_refinement) :
                        needs_refinement \in BOOLEAN}
          [] name = "finalize_summary" ->
                LET summary == IF has({"summary"}) THEN kw["summary"]
                               ELSE PyStr("")
                    final_summary == IF falsy(summary)
                                     THEN PyStr("No summary generated")
                                     ELSE summary
                IN  {DictResult(("final_summary" :> final_summary)
                        @@ ("summary_length" :> length(final_summary))
                        @@ ("status" :> PyStr("completed")))}
          [] OTHER -> {}

(***************************************************************************)
(* Graph definitions and WorkflowGraph.from_definition                     *)
(***************************************************************************)
NodeDef(id, tool, params) == [id |-> id, tool |-> tool, params |-> params]
EdgeDef(from, to, condition) == [from |-> from, to |-> to, condition |-> condition]

\* Node(id, tool_name, params)
Node(node_def) ==
    [id |-> node_def.id, tool_name |-> node_def.tool, params |-> node_def.params]

\* Edge(from_node, to_node) with the compiled condition
Edge(edge_def) ==
    [from_node |-> edge_def.from, to_node |-> edge_def.to,
     condition |-> edge_def.condition]

\* `not x` for an optional string
Falsy(str) == str = Null \/ str = ""

\* graph.nodes after the loop of from_definition: a later spec with the same
\* id replaces the earlier one
GraphNodes(def) ==
    [id \in {def.nodes[i].id : i \in DOMAIN def.nodes} |->
        Node(def.nodes[CHOOSE i \in DOMAIN def.nodes :
                /\ def.nodes[i].id = id
                /\ \A j \in DOMAIN def.nodes : def.nodes[j].id = id => j <= i])]

\* list(graph.nodes.keys())[0]
FirstNodeId(def) == def.nodes[1].id

\* from_definition without the fallback to the first node
FromDefinitionNoFallback(def) ==
    [nodes |-> GraphNodes(def),
     edges |-> [i \in DOMAIN def.edges |-> Edge(def.edges[i])],
     start_node |-> def.start_node]

FromDefinition(def) ==
    [nodes |-> GraphNodes(def),
     edges |-> [i \in DOMAIN def.edges |-> Edge(def.edges[i])],
     start_node |-> IF Falsy(def.start_node) /\ def.nodes # <<>>
                    THEN FirstNodeId(def) ELSE def.start_node]

(***************************************************************************)
(* WorkflowEngine.create_graph                                             *)
(***************************************************************************)
\* from_definition raises out of one of its two loops: node_def["id"] and
\* node_def["tool"] raise KeyError on a node spec without them, as do
\* edge_def["from"], edge_def["to"] and, for an edge that has a condition,
\* cond["type"], cond["key"], cond["value"]
DefinitionRaises(def) ==
    LET NodeSpecRaises(node_def) == ~({"id", "tool"} \subseteq DOMAIN node_def)
        EdgeSpecRaises(edge_def) ==
            \/ ~({"from", "to"} \subseteq DOMAIN edge_def)
            \/ /\ "condition" \in DOMAIN edge_def
               /\ edge_def.condition # NoCondition
               /\ ~({"type", "key", "value"}
                        \subseteq DOMAIN edge_def.condition)
    IN  \/ \E i \in DOMAIN def.nodes : NodeSpecRaises(def.nodes[i])
        \/ \E i \in DOMAIN def.edges : EdgeSpecRaises(def.edges[i])

\* what the last call of create_graph or of DELETE /graph/{graph_id} gave
\* back: the graph id it returned, or the exception it raised
NoReply == [call |-> "none", graph_id |-> Null, error |-> Null]
Reply(call, graph_id, error) ==
    [call |-> call, graph_id |-> graph_id, error |-> error]

\* str(uuid.uuid4()): an id that no graph and no run row carries yet
GraphIdPool == <<"g1", "g2", "g3", "g4">>
FreshGraphIds ==
    {GraphIdPool[i] : i \in 1..MaxGraphs}
        \ (DOMAIN graphs \cup DOMAIN graph_store
            \cup {runs[r].graph_id : r \in DOMAIN runs}
            \cup {store.workflow_runs[r].graph_id :
                    r \in DOMAIN store.workflow_runs})
NewGraphId ==
    GraphIdPool[CHOOSE i \in 1..MaxGraphs :
        /\ GraphIdPool[i] \in FreshGraphIds
        /\ \A j \in 1..MaxGraphs : GraphIdPool[j] \in FreshGraphIds => i <= j]

\* create_graph with the table entry written before the graph is built
CreateGraphStoredFirst(def) ==
    /\ FreshGraphIds # {}
    /\ IF DefinitionRaises(def)
       THEN /\ graphs' = graphs @@ (NewGraphId :>
                            [nodes |-> <<>>, edges |-> <<>>, start_node |-> Null])
            /\ reply' = Reply("create_graph", Null, "KeyError")
       ELSE /\ graphs' = graphs @@ (NewGraphId :> FromDefinition(def))
            /\ reply' = Reply("create_graph", NewGraphId, Null)
    /\ UNCHANGED <<graph_store, run_graph, runs, pc, path, current_node, visited_nodes,
                   iterations, exc, kwargs, events, store, save_failures,
                   request, listenerVars>>

\* engine.create_graph(graph_definition): the graph is built first, and the
\* table is written only when from_definition has returned
CreateGraph(def) ==
    /\ FreshGraphIds # {}
    /\ IF DefinitionRaises(def)
       THEN /\ graphs' = graphs
            /\ reply' = Reply("create_graph", Null, "KeyError")
       ELSE /\ graphs' = graphs @@ (NewGraphId :> FromDefinition(def))
            /\ reply' = Reply("create_graph", NewGraphId, Null)
    /\ UNCHANGED <<graph_store, run_graph, runs, pc, path, current_node, visited_nodes,
                   iterations, exc, kwargs, events, store, save_failures,
                   request, listenerVars>>

(***************************************************************************)
(* The graph definitions and inputs of the model.                          *)
(***************************************************************************)
NoParams == <<>>

\* sequences over S of length at most n
RECURSIVE SeqsUpTo(_, _)
SeqsUpTo(S, n) ==
    IF n = 0 THEN {<<>>}
    ELSE LET shorter == SeqsUpTo(S, n - 1)
         IN  shorter \cup {Append(q, e) : q \in shorter, e \in S}

NodeLists ==
    LET NodeDefsA == {NodeDef("A", "set_x", NoParams),
                      NodeDef("A", "echo", "v" :> PyStr(StateRef("x"))),
                      NodeDef("A", "nope", NoParams)}
        NodeDefsB == {NodeDef("B", "set_xy", NoParams),
                      NodeDef("B", "say", NoParams)}
    IN  {<<>>} \cup {<<a>> : a \in NodeDefsA}
               \cup {<<a, b>> : a \in NodeDefsA, b \in NodeDefsB}

\* "Z" is the id of no node
EdgeDefs == {EdgeDef("A", "B", NoCondition),
             EdgeDef("A", "Z", NoCondition),
             EdgeDef("A", "B", Condition("exists", "y", PyNone)),
             EdgeDef("A", "A", Condition("eq", "x", PyInt(1))),
             EdgeDef("B", "A", NoCondition),
             EdgeDef("B", "A", Condition("lt", "B_result", PyInt(1)))}

SmallDefinitions ==
    {[nodes |-> ns, edges |-> es, start_node |-> st] :
        ns \in NodeLists, es \in SeqsUpTo(EdgeDefs, MaxEdges),
        st \in {Null, "B"}}

\* the node ids n1, n2, ...
ChainNode(i) == "n" \o ToString(i)

\* a chain n1 -> n2 -> ... of ChainLen distinct nodes
ChainDefinition ==
    [nodes |-> [i \in 1..ChainLen |-> NodeDef(ChainNode(i), "set_x", NoParams)],
     edges |-> [i \in 1..(ChainLen - 1) |->
                    EdgeDef(ChainNode(i), ChainNode(i + 1), NoCondition)],
     start_node |-> Null]

Definitions == SmallDefinitions \cup {ChainDefinition}

InitialStates == {<<>>, ("x" :> PyInt(0)) @@ ("z" :> PyInt(5))}

RunIds == {"r1", "r2"}
\* the runs started through Engine.run_workflow
EngineRuns == {"r1"}
\* "g1" is the id create_graph gave; "g0" is in no table
GraphIds == {"g1", "g0"}

(***************************************************************************)
(* Event emission, the persistence listener and the run store              *)
(***************************************************************************)
Event(event_type, run_id, node_id) ==
    [event_type |-> event_type, run_id |-> run_id, node_id |-> node_id,
     error |-> Null]

\* the data of node_failed and workflow_failed carry "error": str(e)
FailureEvent(event_type, run_id, node_id, error) ==
    [Event(event_type, run_id, node_id) EXCEPT !.error = error]

\* no call was made for the run id yet
NoRequest == [none |-> TRUE]

(***************************************************************************)
(* SQLiteStorage: the tables workflow_runs and node_executions             *)
(***************************************************************************)
\* the tables before the first save
EmptyStore == [workflow_runs |-> <<>>, node_executions |-> <<>>]

\* a NULL column
SqlNull == [null |-> TRUE]

\* datetime.isoformat() and datetime.fromisoformat(): the text of a datetime
IsoFormat(t) == [iso |-> t]
FromIsoFormat(text) == text.iso

\* json.dumps, model_dump_json and json.loads, model_validate_json on the
\* values of the model (strings, integers, None, lists, dicts of them)
JsonDumps(value) == [json |-> value]
JsonLoads(text) == text.json

\* the readings of datetime.now() in the order of the clock's dial
Datetimes == <<"01:00", "01:20", "01:40", "02:00">>

\* the values of the INSERT OR REPLACE INTO workflow_runs
RunRow(run) ==
    [run_id |-> run.run_id, graph_id |-> run.graph_id, status |-> run.status,
     initial_state |-> JsonDumps(run.initial_state),
     current_state |-> JsonDumps(run.current_state),
     current_node |-> run.current_node, error |-> run.error,
     completed_at |-> IF run.completed_at # Null
                      THEN IsoFormat(run.completed_at) ELSE SqlNull]

\* the values of one INSERT INTO node_executions
ExecutionRow(run_id, execution) ==
    [run_id |-> run_id, node_id |-> execution.node_id,
     status |-> execution.status,
     started_at |-> IF execution.started_at # Null
                    THEN IsoFormat(execution.started_at) ELSE SqlNull,
     completed_at |-> IF execution.completed_at # Null
                      THEN IsoFormat(execution.completed_at) ELSE SqlNull,
     error |-> execution.error,
     output |-> IF execution.output # NoOutput
                THEN JsonDumps(execution.output) ELSE SqlNull]

\* the rows of node_executions of one run, in the order of execution_id
ExecutionRowsOf(st, run_id) ==
    SelectSeq(st.node_executions, LAMBDA row : row.run_id = run_id)

\* SQLiteStorage.save_workflow_run: the row of the run is replaced, the
\* execution rows of the run are deleted and one row is inserted for each
\* execution of the list, in list order (execution_id is AUTOINCREMENT,
\* node_executions is kept in that order); committed together
SaveWorkflowRun(st, run) ==
    [workflow_runs |-> (run.run_id :> RunRow(run)) @@ st.workflow_runs,
     node_executions |->
        SelectSeq(st.node_executions, LAMBDA row : row.run_id # run.run_id)
            \o [i \in DOMAIN run.node_executions |->
                    ExecutionRow(run.run_id, run.node_executions[i])]]

\* what a lookup answers when there is no run: None, or 404 for a query
NoRun == [none |-> TRUE]

\* the orders in which SELECT ... ORDER BY started_at can return rows:
\* ascending, NULL first, and rows with equal started_at in an order that
\* SQLite leaves undefined.  Stamp is the one reading of the specifications
\* that keep no time
SelectOrders(rows) ==
    LET DatetimeOrder(t) ==
            IF t = Stamp THEN 0
            ELSE CHOOSE i \in DOMAIN Datetimes : Datetimes[i] = t
        StartedAtOrder(row) ==
            IF row.started_at = SqlNull THEN -1
            ELSE DatetimeOrder(FromIsoFormat(row.started_at))
    IN  {p \in Permutations(DOMAIN rows) :
            \A i, j \in DOMAIN rows :
                i < j => StartedAtOrder(rows[p[i]]) <= StartedAtOrder(rows[p[j]])}

\* NodeExecution(...) of get_workflow_run, from one row
ExecutionOfRow(row) ==
    [node_id |-> row.node_id, status |-> row.status,
     started_at |-> IF row.started_at # SqlNull
                    THEN FromIsoFormat(row.started_at) ELSE Null,
     completed_at |-> IF row.completed_at # SqlNull
                      THEN FromIsoFormat(row.completed_at) ELSE Null,
     error |-> row.error,
     output |-> IF row.output # SqlNull THEN JsonLoads(row.output) ELSE NoOutput]

\* SQLiteStorage.get_workflow_run: the runs the call can return
GetWorkflowRun(st, run_id) ==
    IF run_id \notin DOMAIN st.workflow_runs THEN {NoRun}
    ELSE LET row == st.workflow_runs[run_id]
             rows == ExecutionRowsOf(st, run_id)
         IN  {[run_id |-> run_id, graph_id |-> row.graph_id,
               status |-> row.status,
               initial_state |-> JsonLoads(row.initial_state),
               current_state |-> JsonLoads(row.current_state),
               node_executions |->
                    [i \in DOMAIN rows |-> ExecutionOfRow(rows[p[i]])],
               completed_at |-> IF row.completed_at # SqlNull
                                THEN FromIsoFormat(row.completed_at) ELSE Null,
               current_node |-> row.current_node, error |-> row.error] :
                    p \in SelectOrders(rows)}

\* the events on which workflow_event_listener saves the run
SavedEvents == {"workflow_started", "node_completed", "workflow_completed",
                "workflow_failed"}

\* workflow_event_listener: saves the run the engine holds under run_id; a
\* failed save is logged and leaves the store as it was
WorkflowEventListener(event_type, run_id, runs_now) ==
    IF event_type \in SavedEvents /\ run_id \in DOMAIN runs_now
    THEN \/ /\ store' = SaveWorkflowRun(store, runs_now[run_id])
            /\ UNCHANGED save_failures
         \/ /\ save_failures < MaxSaveFailures
            /\ save_failures' = save_failures + 1
            /\ store' = store
    ELSE UNCHANGED <<store, save_failures>>

\* the listeners of the model: the persistence listener of endpoints.py, a
\* listener that returns and a listener that can raise on any call
Listeners == {"workflow_event_listener", "recorder", "broken"}
RaisingListeners == {"broken"}
\* coroutine listeners whose call stays suspended: "slow" returns after a
\* while, "stuck" never returns
SuspendingListeners == {"slow", "stuck"}

\* what the calls of one emit_event can do, listener by listener
ListenerOutcomes(listeners) ==
    {o \in [DOMAIN listeners -> {"returned", "raised", "pending"}] :
        \A i \in DOMAIN listeners :
            /\ o[i] = "raised" => listeners[i] \in RaisingListeners
            /\ o[i] = "pending" <=> listeners[i] \in SuspendingListeners}

\* no call of emit_event was made yet
NoEmission ==
    [event |-> Event(Null, Null, Null), calls |-> <<>>, logged |-> 0,
     error |-> Null]

\* emit_event without the try/except around the call of a listener: the
\* first raise ends the loop and leaves the call
EmitLoopUnguarded(event, listeners, outcomes) ==
    LET raised == {i \in DOMAIN listeners : outcomes[i] = "raised"}
        last == IF raised = {} THEN Len(listeners)
                ELSE CHOOSE i \in raised : \A j \in raised : i <= j
    IN  [event |-> event,
         calls |-> [i \in 1..last |->
                        [listener |-> listeners[i], outcome |-> outcomes[i]]],
         logged |-> 0,
         error |-> IF raised = {} THEN Null ELSE "Listener failed"]

\* the loop of WorkflowEngine.emit_event: every listener of the list is
\* called in list order, what a call raises is logged and dropped, and the
\* call of emit_event itself raises nothing
EmitLoop(event, listeners, outcomes) ==
    LET pending == {i \in DOMAIN listeners : outcomes[i] = "pending"}
        \* `await listener(...)` holds the loop at the first call that has
        \* not returned
        reached == IF pending = {} THEN Len(listeners)
                   ELSE CHOOSE i \in pending : \A j \in pending : i <= j
    IN  [event |-> event,
         calls |-> [i \in 1..reached |->
                        [listener |-> listeners[i], outcome |-> outcomes[i]]],
         logged |-> Cardinality({i \in 1..reached : outcomes[i] = "raised"}),
         error |-> Null]

\* the listeners that one emit_event call invoked
Invoked(em) == {em.calls[i].listener : i \in DOMAIN em.calls}

\* the emit_event call is suspended in the call of a listener
Suspended(em) == \E i \in DOMAIN em.calls : em.calls[i].outcome = "pending"

\* the coroutine of run r is inside an emit_event call that has not returned
AwaitingListener(r) == Suspended(emission) /\ emission.event.run_id = r

\* emit_event seen from the listeners: the event is delivered to the list
Deliver(event) ==
    /\ events' = Append(events, event)
    /\ \E outcomes \in ListenerOutcomes(event_listeners) :
            emission' = EmitLoop(event, event_listeners, outcomes)
    /\ listener_errors' = IF emission'.logged > 0
                          THEN listener_errors \cup {event.run_id}
                          ELSE listener_errors
    /\ UNCHANGED event_listeners

\* emit_event of an event without an error in its data
Notify(event_type, run_id, node_id) ==
    Deliver(Event(event_type, run_id, node_id))

\* WorkflowEngine.emit_event with the effect of the persistence listener
EmitEvent(event_type, run_id, node_id, runs_now) ==
    /\ Notify(event_type, run_id, node_id)
    /\ IF "workflow_event_listener" \in Invoked(emission')
       THEN WorkflowEventListener(event_type, run_id, runs_now)
       ELSE UNCHANGED <<store, save_failures>>

\* WorkflowEngine.emit_event of node_failed or workflow_failed
EmitFailure(event_type, run_id, node_id, error, runs_now) ==
    /\ Deliver(FailureEvent(event_type, run_id, node_id, error))
    /\ IF "workflow_event_listener" \in Invoked(emission')
       THEN WorkflowEventListener(event_type, run_id, runs_now)
       ELSE UNCHANGED <<store, save_failures>>

\* the coroutine of run r after `await emit_event(...)`: it goes on to
\* next when the call returned, and to the enclosing handler with what the
\* call raised
AfterEmit(r, next, handler) ==
    IF emission'.error = Null
    THEN /\ pc' = [pc EXCEPT ![r] = next]
         /\ UNCHANGED exc
    ELSE /\ pc' = [pc EXCEPT ![r] = handler]
         /\ exc' = [exc EXCEPT ![r] = emission'.error]

\* WorkflowEngine.add_event_listener
AddEventListener(listener) ==
    /\ event_listeners' = Append(event_listeners, listener)
    /\ UNCHANGED <<graphs, graph_store, reply, run_graph, runs, pc, path, current_node, visited_nodes,
                   iterations, exc, kwargs, events, store, save_failures,
                   request, emission, listener_errors>>

\* the suspended call of a slow listener returns, and the loop of emit_event
\* goes on with the listeners registered after it
ListenerReturns(r) ==
    /\ AwaitingListener(r)
    /\ LET k == Len(emission.calls)
           event == emission.event
           rest == SubSeq(event_listeners, k + 1, Len(event_listeners))
       IN  /\ emission.calls[k].listener = "slow"
           /\ \E outcomes \in ListenerOutcomes(rest) :
                LET tail == EmitLoop(event, rest, outcomes)
                IN  /\ emission' = [emission EXCEPT
                            !.calls = SubSeq(@, 1, k - 1)
                                \o <<[listener |-> "slow", outcome |-> "returned"]>>
                                \o tail.calls,
                            !.logged = @ + tail.logged]
                    /\ listener_errors' = IF tail.logged > 0
                                          THEN listener_errors \cup {r}
                                          ELSE listener_errors
                    /\ IF "workflow_event_listener" \in Invoked(tail)
                       THEN WorkflowEventListener(event.event_type, r, runs)
                       ELSE UNCHANGED <<store, save_failures>>
    /\ UNCHANGED <<graphs, graph_store, reply, run_graph, runs, pc, path, current_node, visited_nodes,
                   iterations, exc, kwargs, events, request, event_listeners>>

(***************************************************************************)
(* WorkflowGraph                                                           *)
(***************************************************************************)
MaxIterations == 100
LoopLimit == 10

\* WorkflowGraph._get_next_nodes: the targets of the edges that leave
\* node_id and are unconditional or whose condition holds, in list order
GetNextNodes(graph, node_id, data) ==
    LET taken == SelectSeq(graph.edges,
                    LAMBDA edge :
                        /\ edge.from_node = node_id
                        /\ \/ edge.condition = NoCondition
                           \/ ConditionFunc(edge.condition, data))
    IN  [i \in 1..Len(taken) |-> taken[i].to_node]

\* a condition of an edge leaving node_id raises
GetNextNodesRaises(graph, node_id, data) ==
    \E i \in DOMAIN graph.edges :
        /\ graph.edges[i].from_node = node_id
        /\ graph.edges[i].condition # NoCondition
        /\ ConditionRaises(graph.edges[i].condition, data)

\* ResolveParams that also resolves a state reference held in a list
ResolveParamsDeep(params, data) ==
    [k \in DOMAIN params |->
        IF \E key \in StateKeys : params[k].s = StateRef(key)
        THEN StateGet(data, CHOOSE key \in StateKeys : params[k].s = StateRef(key))
        ELSE params[k]]

\* the parameters passed to the tool: params.copy() with every "$state."
\* string replaced by the state's value
ResolveParams(params, data) ==
    [k \in DOMAIN params |->
        IF IsStateRef(params[k]) THEN StateGet(data, RefKey(params[k]))
        ELSE params[k]]

\* no graph object: the coroutine of the run has not looked its graph up
NoGraph == [none |-> TRUE]

\* the WorkflowGraph object that the coroutine of run r holds (`graph` in
\* run_workflow, `self` in execute): it outlives its entry in engine.graphs
GraphOf(r) == run_graph[r]

\* LoopContinues with <= for <
LoopContinuesInclusive(node_id, count) ==
    ~Falsy(node_id) /\ count <= MaxIterations

\* the condition of the while loop of execute
LoopContinues(node_id, count) == ~Falsy(node_id) /\ count < MaxIterations

\* LoopGuard that stops a visited node at the limit already
LoopGuardFromLimit(node_id, visited, count) ==
    node_id \in visited /\ count >= LoopLimit

\* LoopGuard with the limit off by one
LoopGuardOffByOne(node_id, visited, count) ==
    node_id \in visited /\ count > LoopLimit + 1

\* the loop check of execute, made after iterations += 1
LoopGuard(node_id, visited, count) == node_id \in visited /\ count > LoopLimit

\* SetCurrentNode without the assignment
SetCurrentNodeForgotten(run, node_id) == run

\* workflow_run.current_node = current_node
SetCurrentNode(run, node_id) == [run EXCEPT !.current_node = node_id]

\* StartExecution that reuses the record the node already has
StartExecutionReusing(run, node_id) ==
    LET started == [NodeExecution(node_id) EXCEPT !.status = "running",
                                                  !.started_at = Stamp]
        earlier == {i \in DOMAIN run.node_executions :
                        run.node_executions[i].node_id = node_id}
    IN  IF earlier = {}
        THEN [run EXCEPT !.node_executions = Append(@, started)]
        ELSE [run EXCEPT !.node_executions[CHOOSE i \in earlier : TRUE] = started]

\* _execute_node: the new NodeExecution, running, is appended to the run
StartExecution(run, node_id) ==
    [run EXCEPT !.node_executions = Append(@,
        [NodeExecution(node_id) EXCEPT !.status = "running",
                                       !.started_at = Stamp])]

\* AfterRoute that treats the absence of a next node as a failure
AfterRouteNoNextFails(next_nodes) ==
    IF next_nodes = <<>> THEN "except" ELSE "loop"

\* where execute goes once the next nodes are known: out of the loop when
\* there is none, round the loop otherwise
AfterRoute(next_nodes) == IF next_nodes = <<>> THEN "returned" ELSE "loop"

\* SelectNext that takes the last of the next nodes
SelectNextLast(next_nodes) == next_nodes[Len(next_nodes)]

\* the node execute takes among the next nodes: next_nodes[0]
SelectNext(next_nodes) == next_nodes[1]

\* the NodeExecution the running _execute_node holds: the last one appended
LastIndex(r) == Len(runs[r].node_executions)

\* WorkflowGraph.execute up to the loop
ExecuteStart(r) ==
    /\ pc[r] = "execute"
    /\ IF Falsy(GraphOf(r).start_node)
       THEN /\ exc' = [exc EXCEPT ![r] = "No start node defined"]
            /\ pc' = [pc EXCEPT ![r] = "except"]
            /\ UNCHANGED <<current_node, visited_nodes, iterations>>
       ELSE /\ current_node' = [current_node EXCEPT ![r] = GraphOf(r).start_node]
            /\ visited_nodes' = [visited_nodes EXCEPT ![r] = {}]
            /\ iterations' = [iterations EXCEPT ![r] = 0]
            /\ pc' = [pc EXCEPT ![r] = "loop"]
            /\ UNCHANGED exc
    /\ UNCHANGED <<request, graphs, graph_store, reply, run_graph, runs, path, kwargs, events, store,
                   save_failures, listenerVars>>

\* Iterate without the `node_id not in self.nodes` check of _execute_node:
\* a record is appended and node_started emitted for any node id
IterateUnchecked(r) ==
    /\ pc[r] = "loop"
    /\ LET node_id == current_node[r]
           count == iterations[r] + 1
       IN  IF ~LoopContinues(node_id, iterations[r])
           THEN /\ pc' = [pc EXCEPT ![r] = "returned"]
                /\ UNCHANGED <<runs, visited_nodes, iterations, exc, events, store, save_failures, listenerVars>>
           ELSE IF LoopGuard(node_id, visited_nodes[r], count)
           THEN /\ iterations' = [iterations EXCEPT ![r] = count]
                /\ pc' = [pc EXCEPT ![r] = "returned"]
                /\ UNCHANGED <<runs, visited_nodes, exc, events, store, save_failures, listenerVars>>
           ELSE /\ iterations' = [iterations EXCEPT ![r] = count]
                /\ visited_nodes' = [visited_nodes EXCEPT ![r] = @ \cup {node_id}]
                /\ runs' = [runs EXCEPT ![r] =
                        StartExecution(SetCurrentNode(@, node_id), node_id)]
                /\ EmitEvent("node_started", r, node_id, runs')
                /\ AfterEmit(r, "sleep", "except")
    /\ UNCHANGED <<request, graphs, graph_store, reply, run_graph, path, current_node, kwargs>>

\* one pass of the while loop of execute, up to the node_started event of
\* _execute_node
Iterate(r) ==
    /\ pc[r] = "loop"
    /\ LET node_id == current_node[r]
           count == iterations[r] + 1
       IN  IF ~LoopContinues(node_id, iterations[r])
           THEN /\ pc' = [pc EXCEPT ![r] = "returned"]
                /\ UNCHANGED <<runs, visited_nodes, iterations, exc, events, store, save_failures, listenerVars>>
           ELSE IF LoopGuard(node_id, visited_nodes[r], count)
           THEN /\ iterations' = [iterations EXCEPT ![r] = count]
                /\ pc' = [pc EXCEPT ![r] = "returned"]
                /\ UNCHANGED <<runs, visited_nodes, exc, events, store, save_failures, listenerVars>>
           ELSE /\ iterations' = [iterations EXCEPT ![r] = count]
                /\ visited_nodes' = [visited_nodes EXCEPT ![r] = @ \cup {node_id}]
                /\ IF node_id \notin DOMAIN GraphOf(r).nodes
                   THEN /\ runs' = [runs EXCEPT ![r] = SetCurrentNode(@, node_id)]
                        /\ exc' = [exc EXCEPT ![r] = "Node not found"]
                        /\ pc' = [pc EXCEPT ![r] = "except"]
                        /\ UNCHANGED <<events, store, save_failures, listenerVars>>
                   ELSE /\ runs' = [runs EXCEPT ![r] =
                                StartExecution(SetCurrentNode(@, node_id), node_id)]
                        /\ EmitEvent("node_started", r, node_id, runs')
                        /\ AfterEmit(r, "sleep", "except")
    /\ UNCHANGED <<request, graphs, graph_store, reply, run_graph, path, current_node, kwargs>>

\* CallTool on node.params itself, without the copy: the resolved values
\* are written into the node of the graph object, which engine.graphs and
\* the coroutines of its runs hold
CallToolInPlace(r) ==
    /\ pc[r] = "sleep"
    /\ LET node_id == current_node[r]
           resolved == ResolveParams(GraphOf(r).nodes[node_id].params,
                                     runs[r].current_state)
           written == [GraphOf(r) EXCEPT !.nodes[node_id].params = resolved]
       IN  /\ kwargs' = [kwargs EXCEPT ![r] = resolved]
           /\ graphs' = [g \in DOMAIN graphs |->
                            IF graphs[g] = GraphOf(r) THEN written ELSE graphs[g]]
           /\ run_graph' = [q \in RunIds |->
                            IF run_graph[q] = GraphOf(r) THEN written
                            ELSE run_graph[q]]
    /\ pc' = [pc EXCEPT ![r] = "tool"]
    /\ UNCHANGED <<request, graph_store, reply, runs, path, current_node,
                   visited_nodes, iterations, exc, events, store,
                   save_failures, listenerVars>>

\* _execute_node after the sleep: the parameters are resolved and the tool
\* is called
CallTool(r) ==
    /\ pc[r] = "sleep"
    /\ kwargs' = [kwargs EXCEPT ![r] =
            ResolveParams(GraphOf(r).nodes[current_node[r]].params,
                          runs[r].current_state)]
    /\ pc' = [pc EXCEPT ![r] = "tool"]
    /\ UNCHANGED <<request, graphs, graph_store, reply, run_graph, runs, path, current_node, visited_nodes, iterations,
                   exc, events, store, save_failures, listenerVars>>

\* the state after a node's result is applied
ApplyResult(data, node_id, result) ==
    IF result.kind = "dict" THEN StateUpdate(data, result.d)
    ELSE StateSet(data, node_id \o "_result", result.v)

\* CompletedExecution that leaves the output unset
CompletedExecutionNoOutput(execution, result) ==
    [execution EXCEPT !.status = "completed", !.completed_at = Stamp]

\* CompletedExecution that leaves the status as it was
CompletedExecutionStillRunning(execution, result) ==
    [execution EXCEPT !.output = [result |-> result], !.completed_at = Stamp]

\* _execute_node: the record of the node, once the tool returned result
CompletedExecution(execution, result) ==
    [execution EXCEPT !.status = "completed",
                      !.output = [result |-> result],
                      !.completed_at = Stamp]

\* ResultApplied on a current_state that is the object initial_state holds
ResultAppliedAliased(run, node_id, result) ==
    [run EXCEPT !.current_state = ApplyResult(@, node_id, result),
                !.initial_state = ApplyResult(@, node_id, result)]

\* _execute_node: the run, once the result is applied to its current_state
ResultApplied(run, node_id, result) ==
    [run EXCEPT !.current_state = ApplyResult(@, node_id, result)]

\* NodeCompleted on a current_state that every run created from the same
\* mapping holds
NodeCompletedShared(r, result) ==
    LET node_id == current_node[r]
        sharing == {q \in DOMAIN runs :
                        runs[q].initial_state = runs[r].initial_state}
    IN  /\ runs' = [q \in DOMAIN runs |->
                IF q = r
                THEN [ResultApplied(runs[q], node_id, result) EXCEPT
                        !.node_executions[LastIndex(r)] =
                            CompletedExecution(@, result)]
                ELSE IF q \in sharing
                THEN ResultApplied(runs[q], node_id, result)
                ELSE runs[q]]
        /\ EmitEvent("node_completed", r, node_id, runs')
        /\ pc' = [pc EXCEPT ![r] = "route"]
        /\ UNCHANGED exc

\* NodeCompleted without the node_completed event
NodeCompletedSilent(r, result) ==
    LET node_id == current_node[r]
    IN  /\ runs' = [runs EXCEPT ![r] =
                [ResultApplied(@, node_id, result) EXCEPT
                    !.node_executions[LastIndex(r)] =
                        CompletedExecution(@, result)]]
        /\ pc' = [pc EXCEPT ![r] = "route"]
        /\ UNCHANGED <<exc, events, store, save_failures, listenerVars>>

\* _execute_node: the tool returned result
NodeCompleted(r, result) ==
    LET node_id == current_node[r]
    IN  /\ runs' = [runs EXCEPT ![r] =
                [ResultApplied(@, node_id, result) EXCEPT
                    !.node_executions[LastIndex(r)] =
                        CompletedExecution(@, result)]]
        /\ EmitEvent("node_completed", r, node_id, runs')
        /\ AfterEmit(r, "route", "except")

\* NodeFailed without the raise at its end: execute goes on to the routing
NodeFailedSwallowed(r, error) ==
    LET node_id == current_node[r]
    IN  /\ runs' = [runs EXCEPT
                ![r].node_executions[LastIndex(r)] =
                    [@ EXCEPT !.status = "failed",
                              !.error = error,
                              !.completed_at = Stamp]]
        /\ EmitFailure("node_failed", r, node_id, error, runs')
        /\ pc' = [pc EXCEPT ![r] = "route"]
        /\ UNCHANGED exc

\* NodeFailed that also stores the failure in the state, under the key of
\* the node's result
NodeFailedStored(r, error) ==
    LET node_id == current_node[r]
    IN  /\ runs' = [runs EXCEPT
                ![r].node_executions[LastIndex(r)] =
                    [@ EXCEPT !.status = "failed",
                              !.error = error,
                              !.completed_at = Stamp],
                ![r].current_state =
                    StateSet(@, node_id \o "_result", PyNone)]
        /\ EmitFailure("node_failed", r, node_id, error, runs')
        /\ exc' = [exc EXCEPT ![r] =
                IF emission'.error = Null THEN error ELSE emission'.error]
        /\ pc' = [pc EXCEPT ![r] = "except"]

\* _execute_node: the except branch
NodeFailed(r, error) ==
    LET node_id == current_node[r]
    IN  /\ runs' = [runs EXCEPT
                ![r].node_executions[LastIndex(r)] =
                    [@ EXCEPT !.status = "failed",
                              !.error = error,
                              !.completed_at = Stamp]]
        /\ EmitFailure("node_failed", r, node_id, error, runs')
        /\ exc' = [exc EXCEPT ![r] =
                IF emission'.error = Null THEN error ELSE emission'.error]
        /\ pc' = [pc EXCEPT ![r] = "except"]

\* ToolRegistry.execute returns or raises, and _execute_node handles it
ToolReturn(r) ==
    /\ pc[r] = "tool"
    /\ LET name == GraphOf(r).nodes[current_node[r]].tool_name
       IN  IF name \notin RegisteredTools
           THEN NodeFailed(r, "Tool not found in registry")
           ELSE \/ NodeFailed(r, "Tool failed")
                \/ \E result \in ToolResults(name, kwargs[r]) :
                        NodeCompleted(r, result)
    /\ UNCHANGED <<request, graphs, graph_store, reply, run_graph, path, current_node, visited_nodes, iterations, kwargs>>

\* Route on the state the run was started with, which has no result of a
\* node
RouteOnInitialState(r) ==
    /\ pc[r] = "route"
    /\ LET data == runs[r].initial_state
           next_nodes == GetNextNodes(GraphOf(r), current_node[r], data)
       IN  IF GetNextNodesRaises(GraphOf(r), current_node[r], data)
           THEN /\ exc' = [exc EXCEPT ![r] = "TypeError"]
                /\ pc' = [pc EXCEPT ![r] = "except"]
                /\ UNCHANGED current_node
           ELSE /\ pc' = [pc EXCEPT ![r] = AfterRoute(next_nodes)]
                /\ current_node' = [current_node EXCEPT ![r] =
                        IF next_nodes = <<>> THEN @ ELSE SelectNext(next_nodes)]
                /\ UNCHANGED exc
    /\ UNCHANGED <<request, graphs, graph_store, reply, run_graph, runs, path, visited_nodes, iterations, kwargs,
                   events, store, save_failures, listenerVars>>

\* execute after _execute_node returned: the next node is chosen
Route(r) ==
    /\ pc[r] = "route"
    /\ LET data == runs[r].current_state
           next_nodes == GetNextNodes(GraphOf(r), current_node[r], data)
       IN  IF GetNextNodesRaises(GraphOf(r), current_node[r], data)
           THEN /\ exc' = [exc EXCEPT ![r] = "TypeError"]
                /\ pc' = [pc EXCEPT ![r] = "except"]
                /\ UNCHANGED current_node
           ELSE /\ pc' = [pc EXCEPT ![r] = AfterRoute(next_nodes)]
                /\ current_node' = [current_node EXCEPT ![r] =
                        IF next_nodes = <<>> THEN @ ELSE SelectNext(next_nodes)]
                /\ UNCHANGED exc
    /\ UNCHANGED <<request, graphs, graph_store, reply, run_graph, runs, path, visited_nodes, iterations, kwargs,
                   events, store, save_failures, listenerVars>>

(***************************************************************************)
(* WorkflowEngine.run_workflow                                             *)
(***************************************************************************)
\* RunWorkflow with the run created and stored before the graph is looked
\* up
RunWorkflowUnchecked(r, graph_id, initial_state) ==
    /\ pc[r] = "idle"
    /\ request' = [request EXCEPT ![r] =
            [graph_id |-> graph_id, initial_state |-> initial_state]]
    /\ runs' = (r :> WorkflowRun(r, graph_id, initial_state)) @@ runs
    /\ IF graph_id \notin DOMAIN graphs
       THEN /\ exc' = [exc EXCEPT ![r] = "Graph not found"]
            /\ pc' = [pc EXCEPT ![r] = "raised"]
            /\ UNCHANGED <<run_graph, path, events, store, save_failures, listenerVars>>
       ELSE /\ run_graph' = [run_graph EXCEPT ![r] = graphs[graph_id]]
            /\ path' = [path EXCEPT ![r] = "engine"]
            /\ EmitEvent("workflow_started", r, Null, runs')
            /\ AfterEmit(r, "execute", "except")
    /\ UNCHANGED <<graphs, graph_store, reply, current_node, visited_nodes, iterations, kwargs>>

\* run_workflow up to the workflow_started event
RunWorkflow(r, graph_id, initial_state) ==
    /\ pc[r] = "idle"
    \* the arguments of the call, which the caller keeps
    /\ request' = [request EXCEPT ![r] =
            [graph_id |-> graph_id, initial_state |-> initial_state]]
    /\ IF graph_id \notin DOMAIN graphs
       THEN /\ exc' = [exc EXCEPT ![r] = "Graph not found"]
            /\ pc' = [pc EXCEPT ![r] = "raised"]
            /\ UNCHANGED <<run_graph, runs, path, events, store, save_failures, listenerVars>>
       ELSE /\ run_graph' = [run_graph EXCEPT ![r] = graphs[graph_id]]
            /\ runs' = (r :> WorkflowRun(r, graph_id, initial_state)) @@ runs
            /\ path' = [path EXCEPT ![r] = "engine"]
            /\ EmitEvent("workflow_started", r, Null, runs')
            /\ AfterEmit(r, "execute", "except")
    /\ UNCHANGED <<graphs, graph_store, reply, current_node, visited_nodes, iterations, kwargs>>

\* WorkflowCompleted without the assignments to the run: the end is only
\* announced
WorkflowCompletedPending(r) ==
    /\ pc[r] = "returned"
    /\ path[r] = "engine"
    /\ UNCHANGED runs
    /\ EmitEvent("workflow_completed", r, Null, runs')
    /\ AfterEmit(r, "done", "except")
    /\ UNCHANGED <<request, graphs, graph_store, reply, run_graph, path, current_node, visited_nodes, iterations,
                   kwargs>>

\* run_workflow after graph.execute returned
WorkflowCompleted(r) ==
    /\ pc[r] = "returned"
    /\ path[r] = "engine"
    /\ runs' = [runs EXCEPT ![r].status = "completed",
                            ![r].completed_at = Stamp]
    /\ EmitEvent("workflow_completed", r, Null, runs')
    /\ AfterEmit(r, "done", "except")
    /\ UNCHANGED <<request, graphs, graph_store, reply, run_graph, path, current_node, visited_nodes, iterations,
                   kwargs>>

\* WorkflowFailed without the assignments to the run: the failure is only
\* announced and raised
WorkflowFailedUnrecorded(r) ==
    /\ pc[r] = "except"
    /\ path[r] = "engine"
    /\ UNCHANGED runs
    /\ EmitFailure("workflow_failed", r, Null, exc[r], runs')
    /\ AfterEmit(r, "raised", "raised")
    /\ UNCHANGED <<request, graphs, graph_store, reply, run_graph, path, current_node, visited_nodes, iterations,
                   kwargs>>

\* run_workflow: the except branch, which raises again
WorkflowFailed(r) ==
    /\ pc[r] = "except"
    /\ path[r] = "engine"
    /\ runs' = [runs EXCEPT ![r].status = "failed",
                            ![r].error = exc[r],
                            ![r].completed_at = Stamp]
    /\ EmitFailure("workflow_failed", r, Null, exc[r], runs')
    /\ AfterEmit(r, "raised", "raised")
    /\ UNCHANGED <<request, graphs, graph_store, reply, run_graph, path, current_node, visited_nodes, iterations,
                   kwargs>>

(***************************************************************************)
(* The background execution path of app/api/endpoints.py                   *)
(***************************************************************************)
\* the POST /graph/run handler: the run id is returned and the task that
\* will execute the workflow is created
RunWorkflowEndpoint(r, graph_id, initial_state) ==
    /\ pc[r] = "idle"
    /\ request' = [request EXCEPT ![r] =
            [graph_id |-> graph_id, initial_state |-> initial_state]]
    /\ path' = [path EXCEPT ![r] = "async"]
    /\ pc' = [pc EXCEPT ![r] = "scheduled"]
    /\ UNCHANGED <<graphs, graph_store, reply, run_graph, runs, current_node, visited_nodes, iterations, exc,
                   kwargs, events, store, save_failures, listenerVars>>

\* _execute_workflow_async after its sleep, up to graph.execute
ExecuteWorkflowAsync(r) ==
    /\ pc[r] = "scheduled"
    /\ runs' = (r :> WorkflowRun(r, request[r].graph_id,
                                 request[r].initial_state)) @@ runs
    /\ IF request[r].graph_id \notin DOMAIN graphs
       THEN /\ exc' = [exc EXCEPT ![r] = "Graph not found"]
            /\ pc' = [pc EXCEPT ![r] = "except"]
            /\ UNCHANGED run_graph
       ELSE /\ run_graph' = [run_graph EXCEPT ![r] = graphs[request[r].graph_id]]
            /\ pc' = [pc EXCEPT ![r] = "execute"]
            /\ UNCHANGED exc
    /\ UNCHANGED <<request, graphs, graph_store, reply, path, current_node, visited_nodes,
                   iterations, kwargs, events, store, save_failures, listenerVars>>

\* AsyncCompleted without the assignment to completed_at
AsyncCompletedNoTime(r) ==
    /\ pc[r] = "returned"
    /\ path[r] = "async"
    /\ runs' = [runs EXCEPT ![r].status = "completed"]
    /\ pc' = [pc EXCEPT ![r] = "save_completed"]
    /\ UNCHANGED <<request, graphs, graph_store, reply, run_graph, path, current_node, visited_nodes,
                   iterations, exc, kwargs, events, store, save_failures, listenerVars>>

\* _execute_workflow_async after graph.execute returned, up to the save
AsyncCompleted(r) ==
    /\ pc[r] = "returned"
    /\ path[r] = "async"
    /\ runs' = [runs EXCEPT ![r].status = "completed",
                            ![r].completed_at = Stamp]
    /\ pc' = [pc EXCEPT ![r] = "save_completed"]
    /\ UNCHANGED <<request, graphs, graph_store, reply, run_graph, path, current_node, visited_nodes,
                   iterations, exc, kwargs, events, store, save_failures, listenerVars>>

\* the save of the completed run returns, and workflow_completed is
\* emitted, or the save raises into the except branch
AsyncCompletedSave(r) ==
    /\ pc[r] = "save_completed"
    /\ \/ /\ Notify("workflow_completed", r, Null)
          \* the listener saves the same run again, or fails to
          /\ store' = SaveWorkflowRun(store, runs[r])
          /\ \/ UNCHANGED save_failures
             \/ /\ save_failures < MaxSaveFailures
                /\ save_failures' = save_failures + 1
          /\ AfterEmit(r, "done", "except")
       \/ /\ save_failures < MaxSaveFailures
          /\ save_failures' = save_failures + 1
          /\ exc' = [exc EXCEPT ![r] = "Save failed"]
          /\ pc' = [pc EXCEPT ![r] = "except"]
          /\ UNCHANGED <<events, store, listenerVars>>
    /\ UNCHANGED <<request, graphs, graph_store, reply, run_graph, runs, path, current_node, visited_nodes,
                   iterations, kwargs>>

\* the except branch of _execute_workflow_async, up to the save
AsyncFailed(r) ==
    /\ pc[r] = "except"
    /\ path[r] = "async"
    /\ IF r \in DOMAIN runs
       THEN runs' = [runs EXCEPT ![r].status = "failed",
                                 ![r].error = exc[r],
                                 ![r].completed_at = Stamp]
       ELSE UNCHANGED runs
    /\ pc' = [pc EXCEPT ![r] = "save_failed"]
    /\ UNCHANGED <<request, graphs, graph_store, reply, run_graph, path, current_node, visited_nodes,
                   iterations, exc, kwargs, events, store, save_failures, listenerVars>>

\* the save of the failed run returns, and workflow_failed is emitted, or
\* the save raises out of the task
AsyncFailedSave(r) ==
    /\ pc[r] = "save_failed"
    /\ \/ /\ Deliver(FailureEvent("workflow_failed", r, Null, exc[r]))
          \* the listener saves the same run again, or fails to
          /\ store' = (IF r \in DOMAIN runs
                       THEN SaveWorkflowRun(store, runs[r]) ELSE store)
          /\ \/ UNCHANGED save_failures
             \/ /\ r \in DOMAIN runs
                /\ save_failures < MaxSaveFailures
                /\ save_failures' = save_failures + 1
          /\ pc' = [pc EXCEPT ![r] =
                IF emission'.error = Null THEN "done" ELSE "crashed"]
       \/ /\ r \in DOMAIN runs
          /\ save_failures < MaxSaveFailures
          /\ save_failures' = save_failures + 1
          /\ pc' = [pc EXCEPT ![r] = "crashed"]
          /\ UNCHANGED <<events, store, listenerVars>>
    /\ UNCHANGED <<request, graphs, graph_store, reply, run_graph, runs, path, current_node, visited_nodes,
                   iterations, exc, kwargs>>

\* storage.delete_graph(graph_id): one transaction that deletes the rows of
\* the runs of the graph with their node executions, then the graph row; it
\* answers whether a graph row was deleted
DeleteGraphStore(graph_id) ==
    /\ reply.call # "storage.delete_graph"
    /\ reply' = Reply("storage.delete_graph", graph_id,
                      IF graph_id \in DOMAIN graph_store
                      THEN Null ELSE "Graph not found")
    /\ LET run_ids == {r \in DOMAIN store.workflow_runs :
                            store.workflow_runs[r].graph_id = graph_id}
       IN  store' =
            [workflow_runs |->
                [r \in DOMAIN store.workflow_runs \ run_ids |->
                    store.workflow_runs[r]],
             node_executions |->
                SelectSeq(store.node_executions,
                          LAMBDA row : row.run_id \notin run_ids)]
    /\ graph_store' = [g \in DOMAIN graph_store \ {graph_id} |-> graph_store[g]]
    /\ UNCHANGED <<graphs, run_graph, runs, pc, path, current_node,
                   visited_nodes, iterations, exc, kwargs, events,
                   save_failures, request, listenerVars>>

\* DELETE /graph/{graph_id} after `await storage.delete_graph`: on success
\* the graph leaves engine.graphs and the request returns; the 404 raised
\* otherwise is caught by the handler's own except and answered as 500
DeleteGraphReturn ==
    /\ reply.call = "storage.delete_graph"
    /\ IF reply.error = Null
       THEN /\ graphs' = [g \in DOMAIN graphs \ {reply.graph_id} |-> graphs[g]]
            /\ reply' = Reply("delete_graph", reply.graph_id, Null)
       ELSE /\ graphs' = graphs
            /\ reply' = Reply("delete_graph", reply.graph_id, "HTTP 500")
    /\ UNCHANGED <<graph_store, run_graph, runs, pc, path, current_node,
                   visited_nodes, iterations, exc, kwargs, events, store,
                   save_failures, request, listenerVars>>

\* WorkflowEngine.get_run
GetRun(run_id) == IF run_id \in DOMAIN runs THEN runs[run_id] ELSE NoRun

\* GET /graph/state/{run_id}: the answers the query can give: the run of
\* the engine, else the run loaded from the store, else 404
GetWorkflowState(run_id) ==
    IF GetRun(run_id) # NoRun THEN {GetRun(run_id)}
    ELSE GetWorkflowRun(store, run_id)

(***************************************************************************)
(* Specification of runs started through Engine.run_workflow               *)
(***************************************************************************)
Init ==
    /\ \E def \in Definitions :
            /\ graphs = ("g1" :> FromDefinition(def))
            /\ graph_store = ("g1" :> def)
    /\ reply = NoReply
    /\ run_graph = [r \in RunIds |-> NoGraph]
    /\ runs = <<>>
    /\ pc = [r \in RunIds |-> "idle"]
    /\ path = [r \in RunIds |-> "none"]
    /\ current_node = [r \in RunIds |-> Null]
    /\ visited_nodes = [r \in RunIds |-> {}]
    /\ iterations = [r \in RunIds |-> 0]
    /\ exc = [r \in RunIds |-> Null]
    /\ kwargs = [r \in RunIds |-> NoParams]
    /\ events = <<>>
    /\ store = EmptyStore
    /\ save_failures = 0
    /\ event_listeners = <<"workflow_event_listener">>
    /\ emission = NoEmission
    /\ listener_errors = {}
    /\ request = [r \in RunIds |-> NoRequest]

Next ==
    \E r \in EngineRuns :
        \/ \E graph_id \in GraphIds, initial_state \in InitialStates :
                RunWorkflow(r, graph_id, initial_state)
        \/ ExecuteStart(r)
        \/ Iterate(r)
        \/ CallTool(r)
        \/ ToolReturn(r)
        \/ Route(r)
        \/ WorkflowCompleted(r)
        \/ WorkflowFailed(r)

Spec == Init /\ [][Next]_vars

(***************************************************************************)
(* Specification of runs started through POST /graph/run                   *)
(***************************************************************************)
\* the runs started through the background path
AsyncRuns == {"r1"}

NextAsync ==
    \E r \in AsyncRuns :
        \/ \E graph_id \in GraphIds, initial_state \in InitialStates :
                RunWorkflowEndpoint(r, graph_id, initial_state)
        \/ ExecuteWorkflowAsync(r)
        \/ ExecuteStart(r)
        \/ Iterate(r)
        \/ CallTool(r)
        \/ ToolReturn(r)
        \/ Route(r)
        \/ AsyncCompleted(r)
        \/ AsyncCompletedSave(r)
        \/ AsyncFailed(r)
        \/ AsyncFailedSave(r)

SpecAsync == Init /\ [][NextAsync]_vars

(***************************************************************************)
(* Specification of runs of graphs whose second node has parameters        *)
(***************************************************************************)
\* the values of a node's params: literals, state references to a key that
\* is set, to a key a node sets and to a key nothing sets, and a list that
\* holds a state reference
ParamSets ==
    LET ParamValues == {PyInt(7), PyNone, PyStr("done"), PyStr(StateRef("x")),
                        PyStr(StateRef("y")), PyStr(StateRef("z")),
                        PyList(StateRef("x"))}
    IN  {NoParams} \cup {"v" :> a : a \in ParamValues}
            \cup {("v" :> a) @@ ("w" :> b) : a, b \in ParamValues}

\* A -> B, where A sets keys of the state and B is called with params
ParamDefinitions ==
    {[nodes |-> <<NodeDef("A", tool, NoParams), NodeDef("B", "echo", params)>>,
      edges |-> <<EdgeDef("A", "B", NoCondition)>>,
      start_node |-> Null] : tool \in {"set_x", "set_xy"}, params \in ParamSets}

InitParams ==
    /\ \E def \in ParamDefinitions :
            /\ graphs = ("g1" :> FromDefinition(def))
            /\ graph_store = ("g1" :> def)
    /\ reply = NoReply
    /\ run_graph = [r \in RunIds |-> NoGraph]
    /\ runs = <<>>
    /\ pc = [r \in RunIds |-> "idle"]
    /\ path = [r \in RunIds |-> "none"]
    /\ current_node = [r \in RunIds |-> Null]
    /\ visited_nodes = [r \in RunIds |-> {}]
    /\ iterations = [r \in RunIds |-> 0]
    /\ exc = [r \in RunIds |-> Null]
    /\ kwargs = [r \in RunIds |-> NoParams]
    /\ events = <<>>
    /\ store = EmptyStore
    /\ save_failures = 0
    /\ event_listeners = <<"workflow_event_listener">>
    /\ emission = NoEmission
    /\ listener_errors = {}
    /\ request = [r \in RunIds |-> NoRequest]

SpecParams == InitParams /\ [][Next]_vars

(***************************************************************************)
(* Specification of runs of graphs whose edge out of the first node has a  *)
(* condition                                                               *)
(***************************************************************************)
\* "contains" is no condition type of create_condition
ConditionKeys == {"x", "y", "A_result"}

Conditions ==
    LET ConditionTypes == {"eq", "gt", "lt", "gte", "lte", "exists",
                           "not_exists", "contains"}
        ConditionValues == {PyInt(0), PyInt(1), PyInt(2), PyStr(""),
                            PyStr("done"), PyNone, PyStr(StateRef("y")),
                            PyStr(StateRef("z"))}
    IN  {Condition(type, key, value) :
            type \in ConditionTypes, key \in ConditionKeys,
            value \in ConditionValues}

\* the tools of the first node: a dict that sets x, a string and None, the
\* last two stored under "A_result"
ConditionTools == {"set_x", "say", "none"}

\* A -> B on one condition, and A -> B on "exists" followed by A -> Z on
\* "not_exists" of the same key
ConditionDefinitions ==
    {[nodes |-> <<NodeDef("A", tool, NoParams), NodeDef("B", "say", NoParams)>>,
      edges |-> <<EdgeDef("A", "B", cond)>>,
      start_node |-> Null] : tool \in ConditionTools, cond \in Conditions}
    \cup
    {[nodes |-> <<NodeDef("A", tool, NoParams), NodeDef("B", "say", NoParams)>>,
      edges |-> <<EdgeDef("A", "B", Condition("exists", key, PyNone)),
                  EdgeDef("A", "Z", Condition("not_exists", key, PyNone))>>,
      start_node |-> Null] : tool \in ConditionTools, key \in ConditionKeys}

InitConditions ==
    /\ \E def \in ConditionDefinitions :
            /\ graphs = ("g1" :> FromDefinition(def))
            /\ graph_store = ("g1" :> def)
    /\ reply = NoReply
    /\ run_graph = [r \in RunIds |-> NoGraph]
    /\ runs = <<>>
    /\ pc = [r \in RunIds |-> "idle"]
    /\ path = [r \in RunIds |-> "none"]
    /\ current_node = [r \in RunIds |-> Null]
    /\ visited_nodes = [r \in RunIds |-> {}]
    /\ iterations = [r \in RunIds |-> 0]
    /\ exc = [r \in RunIds |-> Null]
    /\ kwargs = [r \in RunIds |-> NoParams]
    /\ events = <<>>
    /\ store = EmptyStore
    /\ save_failures = 0
    /\ event_listeners = <<"workflow_event_listener">>
    /\ emission = NoEmission
    /\ listener_errors = {}
    /\ request = [r \in RunIds |-> NoRequest]

SpecConditions == InitConditions /\ [][Next]_vars

(***************************************************************************)
(* Specification of two runs started through Engine.run_workflow, each a   *)
(* task of the same event loop                                             *)
(***************************************************************************)
\* the graphs of the two-run specification: one node each
MultiDefinition(tool) ==
    [nodes |-> <<NodeDef("A", tool, NoParams)>>, edges |-> <<>>,
     start_node |-> Null]

InitMulti ==
    /\ graphs = ("g1" :> FromDefinition(MultiDefinition("set_x")))
                    @@ ("g2" :> FromDefinition(MultiDefinition("say")))
    /\ graph_store = ("g1" :> MultiDefinition("set_x"))
                        @@ ("g2" :> MultiDefinition("say"))
    /\ reply = NoReply
    /\ run_graph = [r \in RunIds |-> NoGraph]
    /\ runs = <<>>
    /\ pc = [r \in RunIds |-> "idle"]
    /\ path = [r \in RunIds |-> "none"]
    /\ current_node = [r \in RunIds |-> Null]
    /\ visited_nodes = [r \in RunIds |-> {}]
    /\ iterations = [r \in RunIds |-> 0]
    /\ exc = [r \in RunIds |-> Null]
    /\ kwargs = [r \in RunIds |-> NoParams]
    /\ events = <<>>
    /\ store = EmptyStore
    /\ save_failures = 0
    /\ event_listeners = <<"workflow_event_listener">>
    /\ emission = NoEmission
    /\ listener_errors = {}
    /\ request = [r \in RunIds |-> NoRequest]

\* the next stretch of the task that drives run r, up to its next
\* suspension point
EngineStep(r) ==
    \/ \E graph_id \in {"g1", "g2"}, initial_state \in InitialStates :
            RunWorkflow(r, graph_id, initial_state)
    \/ ExecuteStart(r)
    \/ Iterate(r)
    \/ CallTool(r)
    \/ ToolReturn(r)
    \/ Route(r)
    \/ WorkflowCompleted(r)
    \/ WorkflowFailed(r)

\* the event loop resumes one of the tasks
NextMulti == \E r \in RunIds : EngineStep(r)

SpecMulti == InitMulti /\ [][NextMulti]_vars

(***************************************************************************)
(* Specification of an engine whose listeners are registered by its owner: *)
(* two runs of one graph, and listeners that can raise                     *)
(***************************************************************************)
\* the engine after __init__ and one create_graph
InitListeners ==
    /\ graphs = ("g1" :> FromDefinition(MultiDefinition("set_x")))
    /\ graph_store = ("g1" :> MultiDefinition("set_x"))
    /\ reply = NoReply
    /\ run_graph = [r \in RunIds |-> NoGraph]
    /\ runs = <<>>
    /\ pc = [r \in RunIds |-> "idle"]
    /\ path = [r \in RunIds |-> "none"]
    /\ current_node = [r \in RunIds |-> Null]
    /\ visited_nodes = [r \in RunIds |-> {}]
    /\ iterations = [r \in RunIds |-> 0]
    /\ exc = [r \in RunIds |-> Null]
    /\ kwargs = [r \in RunIds |-> NoParams]
    /\ events = <<>>
    /\ store = EmptyStore
    /\ save_failures = 0
    /\ request = [r \in RunIds |-> NoRequest]
    /\ event_listeners = <<>>
    /\ emission = NoEmission
    /\ listener_errors = {}

\* the owner of the engine registers one more listener, as endpoints.py
\* does when it is imported, before any run is started
Register ==
    \E listener \in Listeners \ {event_listeners[i] : i \in DOMAIN event_listeners} :
        /\ Len(event_listeners) < MaxListeners
        /\ \A r \in RunIds : pc[r] = "idle"
        /\ AddEventListener(listener)

\* the runs whose run_workflow call the caller awaited before it started
\* run r: the runs are started one after the other
AwaitedBefore(r) == IF r = "r2" THEN {"r1"} ELSE {}

\* a listener is registered, or the task that drives a run of graph "g1"
\* takes its next stretch
NextListeners ==
    \/ Register
    \/ \E r \in RunIds :
        \/ \E initial_state \in InitialStates :
                /\ \A q \in AwaitedBefore(r) : pc[q] \in {"done", "raised"}
                /\ RunWorkflow(r, "g1", initial_state)
        \/ ExecuteStart(r)
        \/ Iterate(r)
        \/ CallTool(r)
        \/ ToolReturn(r)
        \/ Route(r)
        \/ WorkflowCompleted(r)
        \/ WorkflowFailed(r)

SpecListeners == InitListeners /\ [][NextListeners]_vars

(***************************************************************************)
(* Specification of one run of an engine with a listener whose call stays  *)
(* suspended; the event loop resumes every task that can go on             *)
(***************************************************************************)
\* the graph of this specification: A -> B
SlowDefinition ==
    [nodes |-> <<NodeDef("A", "set_x", NoParams), NodeDef("B", "say", NoParams)>>,
     edges |-> <<EdgeDef("A", "B", NoCondition)>>,
     start_node |-> Null]

\* the listener lists of this specification
SlowListenerLists ==
    {<<"workflow_event_listener">>,
     <<"workflow_event_listener", "slow">>,
     <<"slow", "workflow_event_listener">>,
     <<"workflow_event_listener", "stuck">>}

InitSlow ==
    /\ graphs = ("g1" :> FromDefinition(SlowDefinition))
    /\ graph_store = ("g1" :> SlowDefinition)
    /\ reply = NoReply
    /\ run_graph = [r \in RunIds |-> NoGraph]
    /\ runs = <<>>
    /\ pc = [r \in RunIds |-> "idle"]
    /\ path = [r \in RunIds |-> "none"]
    /\ current_node = [r \in RunIds |-> Null]
    /\ visited_nodes = [r \in RunIds |-> {}]
    /\ iterations = [r \in RunIds |-> 0]
    /\ exc = [r \in RunIds |-> Null]
    /\ kwargs = [r \in RunIds |-> NoParams]
    /\ events = <<>>
    /\ store = EmptyStore
    /\ save_failures = 0
    /\ request = [r \in RunIds |-> NoRequest]
    /\ event_listeners \in SlowListenerLists
    /\ emission = NoEmission
    /\ listener_errors = {}

\* the task that drives run r takes its next stretch, which it does only
\* when the emit_event call it awaits has returned, or the call of the slow
\* listener returns
NextSlow ==
    \E r \in EngineRuns :
        \/ /\ ~AwaitingListener(r)
           /\ \/ \E initial_state \in InitialStates :
                    RunWorkflow(r, "g1", initial_state)
              \/ ExecuteStart(r)
              \/ Iterate(r)
              \/ CallTool(r)
              \/ ToolReturn(r)
              \/ Route(r)
              \/ WorkflowCompleted(r)
              \/ WorkflowFailed(r)
        \/ ListenerReturns(r)

\* asyncio runs every task that is ready
SpecSlow == InitSlow /\ [][NextSlow]_vars /\ WF_vars(NextSlow)

(***************************************************************************)
(* Specification of runs of graphs whose definitions are complete or       *)
(* refer to nodes and tools that do not exist                              *)
(***************************************************************************)
\* "Z" is the id of no node, "nope" the name of no tool
GraphDefinitions ==
    LET a == NodeDef("A", "set_x", NoParams)
        b == NodeDef("B", "say", NoParams)
        def(ns, es, st) == [nodes |-> ns, edges |-> es, start_node |-> st]
    IN  {def(<<>>, <<>>, Null),
         def(<<a>>, <<>>, Null),
         def(<<a>>, <<>>, ""),
         def(<<a>>, <<>>, "Z"),
         def(<<a>>, <<EdgeDef("A", "Z", NoCondition)>>, Null),
         def(<<NodeDef("A", "nope", NoParams)>>, <<>>, Null),
         def(<<a, b>>, <<EdgeDef("A", "B", NoCondition)>>, Null),
         def(<<a, b>>, <<EdgeDef("B", "A", NoCondition)>>, "B"),
         def(<<a, b>>, <<EdgeDef("A", "B", NoCondition),
                         EdgeDef("B", "Z", NoCondition)>>, "A")}

InitGraphs ==
    /\ \E def \in GraphDefinitions :
            /\ graphs = ("g1" :> FromDefinition(def))
            /\ graph_store = ("g1" :> def)
    /\ reply = NoReply
    /\ run_graph = [r \in RunIds |-> NoGraph]
    /\ runs = <<>>
    /\ pc = [r \in RunIds |-> "idle"]
    /\ path = [r \in RunIds |-> "none"]
    /\ current_node = [r \in RunIds |-> Null]
    /\ visited_nodes = [r \in RunIds |-> {}]
    /\ iterations = [r \in RunIds |-> 0]
    /\ exc = [r \in RunIds |-> Null]
    /\ kwargs = [r \in RunIds |-> NoParams]
    /\ events = <<>>
    /\ store = EmptyStore
    /\ save_failures = 0
    /\ request = [r \in RunIds |-> NoRequest]
    /\ event_listeners = <<"workflow_event_listener">>
    /\ emission = NoEmission
    /\ listener_errors = {}

SpecGraphs == InitGraphs /\ [][Next]_vars

(***************************************************************************)
(* Specification of an engine whose graphs are created by create_graph,    *)
(* from definitions that are complete or lack a field, and then run        *)
(***************************************************************************)
\* node and edge specs without one of their fields
CreateDefinitions ==
    LET a == NodeDef("A", "set_x", NoParams)
        b == NodeDef("B", "say", NoParams)
        ab == EdgeDef("A", "B", NoCondition)
        def(ns, es, st) == [nodes |-> ns, edges |-> es, start_node |-> st]
    IN  {def(<<a, b>>, <<ab>>, Null),
         def(<<a, b>>, <<ab>>, ""),
         def(<<a, b>>, <<EdgeDef("B", "A", NoCondition)>>, "B"),
         def(<<>>, <<>>, "B"),
         def(<<a, [tool |-> "say", params |-> NoParams]>>, <<>>, Null),
         def(<<[id |-> "A", params |-> NoParams]>>, <<>>, Null),
         def(<<a, b>>, <<[to |-> "B", condition |-> NoCondition]>>, Null),
         def(<<a, b>>, <<ab, [from |-> "B", condition |-> NoCondition]>>, Null),
         def(<<a, b>>, <<[from |-> "A", to |-> "B",
                          condition |-> [type |-> "exists", key |-> "x"]]>>, Null)}

InitCreate ==
    /\ graphs = <<>>
    /\ graph_store = <<>>
    /\ reply = NoReply
    /\ run_graph = [r \in RunIds |-> NoGraph]
    /\ runs = <<>>
    /\ pc = [r \in RunIds |-> "idle"]
    /\ path = [r \in RunIds |-> "none"]
    /\ current_node = [r \in RunIds |-> Null]
    /\ visited_nodes = [r \in RunIds |-> {}]
    /\ iterations = [r \in RunIds |-> 0]
    /\ exc = [r \in RunIds |-> Null]
    /\ kwargs = [r \in RunIds |-> NoParams]
    /\ events = <<>>
    /\ store = EmptyStore
    /\ save_failures = 0
    /\ request = [r \in RunIds |-> NoRequest]
    /\ event_listeners = <<"workflow_event_listener">>
    /\ emission = NoEmission
    /\ listener_errors = {}

NextCreate ==
    \/ \E def \in CreateDefinitions : CreateGraph(def)
    \/ \E r \in EngineRuns :
        \/ \E i \in 1..MaxGraphs : RunWorkflow(r, GraphIdPool[i], <<>>)
        \/ ExecuteStart(r)
        \/ Iterate(r)
        \/ CallTool(r)
        \/ ToolReturn(r)
        \/ Route(r)
        \/ WorkflowCompleted(r)
        \/ WorkflowFailed(r)

SpecCreate == InitCreate /\ [][NextCreate]_vars

(***************************************************************************)
(* Specification of an engine whose graphs are deleted through             *)
(* DELETE /graph/{graph_id} while runs of them are started and executing   *)
(***************************************************************************)
\* a graph of two nodes
DeleteDefinition ==
    [nodes |-> <<NodeDef("A", "set_x", NoParams), NodeDef("B", "say", NoParams)>>,
     edges |-> <<EdgeDef("A", "B", NoCondition)>>,
     start_node |-> Null]

\* the graph ids that DELETE requests name: "g1" is in the table and in the
\* store, "g0" in neither
DeleteGraphIds == {"g1", "g0"}

InitDelete ==
    /\ graphs = ("g1" :> FromDefinition(DeleteDefinition))
    /\ graph_store = ("g1" :> DeleteDefinition)
    /\ reply = NoReply
    /\ run_graph = [r \in RunIds |-> NoGraph]
    /\ runs = <<>>
    /\ pc = [r \in RunIds |-> "idle"]
    /\ path = [r \in RunIds |-> "none"]
    /\ current_node = [r \in RunIds |-> Null]
    /\ visited_nodes = [r \in RunIds |-> {}]
    /\ iterations = [r \in RunIds |-> 0]
    /\ exc = [r \in RunIds |-> Null]
    /\ kwargs = [r \in RunIds |-> NoParams]
    /\ events = <<>>
    /\ store = EmptyStore
    /\ save_failures = 0
    /\ request = [r \in RunIds |-> NoRequest]
    /\ event_listeners = <<"workflow_event_listener">>
    /\ emission = NoEmission
    /\ listener_errors = {}

\* a DELETE request takes a step, or the task that drives a run does; the
\* first run is over before the second is started
NextDelete ==
    \/ \E graph_id \in DeleteGraphIds : DeleteGraphStore(graph_id)
    \/ DeleteGraphReturn
    \/ \E r \in RunIds :
        \/ /\ \A q \in AwaitedBefore(r) : pc[q] \in {"done", "raised"}
           /\ RunWorkflow(r, "g1", <<>>)
        \/ ExecuteStart(r)
        \/ Iterate(r)
        \/ CallTool(r)
        \/ ToolReturn(r)
        \/ Route(r)
        \/ WorkflowCompleted(r)
        \/ WorkflowFailed(r)

SpecDelete == InitDelete /\ [][NextDelete]_vars

(***************************************************************************)
(* Specification of the store alone: a run is saved with                   *)
(* save_workflow_run, once or again, and loaded with get_workflow_run      *)
(***************************************************************************)
\* the executions of a run of the given status: all completed, but for the
\* last one of a run that is running or failed.  Their started_at are
\* readings of datetime.now(), the wall clock in local time, which can stand
\* still and can be set back
StoredExecutions(status) ==
    LET StoredExecution(node_id, t) ==
            [NodeExecution(node_id) EXCEPT
                !.status = "completed", !.started_at = t, !.completed_at = t,
                !.output = [result |-> PyInt(1)]]
        done == SeqsUpTo({StoredExecution(n, Datetimes[i]) :
                            n \in {"A", "B"}, i \in 1..MaxClock},
                         MaxExecutions)
        last == IF status \in {"running", "failed"} THEN {status, "completed"}
                ELSE {"completed"}
    IN  IF status = "pending" THEN {<<>>}
        ELSE {IF es = <<>> THEN es
              ELSE [es EXCEPT ![Len(es)].status = s,
                              ![Len(es)].completed_at =
                                    IF s = "running" THEN Null ELSE @,
                              ![Len(es)].error =
                                    IF s = "failed" THEN "boom" ELSE Null,
                              ![Len(es)].output =
                                    IF s = "completed" THEN @ ELSE NoOutput] :
                    es \in done, s \in last}

\* the runs handed to the store
StoredRuns ==
    LET StoredRunsOf(status) ==
            {[WorkflowRun("r1", "g1", <<>>) EXCEPT
                !.status = status, !.current_state = data,
                !.node_executions = es,
                !.current_node = IF es = <<>> THEN Null
                                 ELSE es[Len(es)].node_id,
                !.error = IF status = "failed" THEN "boom" ELSE Null,
                !.completed_at = IF status \in {"completed", "failed"}
                                 THEN Datetimes[MaxClock] ELSE Null] :
                data \in {<<>>, ("x" :> PyInt(1)) @@ ("y" :> PyStr("a"))},
                es \in StoredExecutions(status)}
    IN  UNION {StoredRunsOf(status) :
                status \in {"pending", "running", "completed", "failed"}}

InitStore ==
    /\ graphs = ("g1" :> FromDefinition(DeleteDefinition))
    /\ graph_store = ("g1" :> DeleteDefinition)
    /\ reply = NoReply
    /\ run_graph = [r \in RunIds |-> NoGraph]
    /\ \E run \in StoredRuns : runs = ("r1" :> run)
    /\ pc = [r \in RunIds |-> "idle"]
    /\ path = [r \in RunIds |-> "none"]
    /\ current_node = [r \in RunIds |-> Null]
    /\ visited_nodes = [r \in RunIds |-> {}]
    /\ iterations = [r \in RunIds |-> 0]
    /\ exc = [r \in RunIds |-> Null]
    /\ kwargs = [r \in RunIds |-> NoParams]
    /\ events = <<>>
    /\ store = EmptyStore
    /\ save_failures = 0
    /\ request = [r \in RunIds |-> NoRequest]
    /\ event_listeners = <<"workflow_event_listener">>
    /\ emission = NoEmission
    /\ listener_errors = {}

\* the number of save_workflow_run calls made
SavesMade == IF "saves" \in DOMAIN reply THEN reply.saves ELSE 0

\* await storage.save_workflow_run(workflow_run)
SaveRun(r) ==
    /\ r \in DOMAIN runs
    /\ SavesMade < MaxSaves
    /\ store' = SaveWorkflowRun(store, runs[r])
    /\ reply' = [call |-> "save_workflow_run", graph_id |-> Null,
                 error |-> Null, saves |-> SavesMade + 1]
    /\ UNCHANGED <<graphs, graph_store, run_graph, runs, pc, path,
                   current_node, visited_nodes, iterations, exc, kwargs,
                   events, save_failures, request, listenerVars>>

\* await storage.get_workflow_run(run_id)
LoadRun(r) ==
    /\ \E run \in GetWorkflowRun(store, r) :
            reply' = [call |-> "get_workflow_run", graph_id |-> Null,
                      error |-> Null, saves |-> SavesMade, run |-> run]
    /\ UNCHANGED <<graphs, graph_store, run_graph, runs, pc, path,
                   current_node, visited_nodes, iterations, exc, kwargs,
                   events, store, save_failures, request, listenerVars>>

NextStore ==
    \E r \in EngineRuns :
        \/ SaveRun(r)
        \/ LoadRun(r)

SpecStore == InitStore /\ [][NextStore]_vars

(***************************************************************************)
(* Specification of runs of graphs with cycles; the event loop resumes the  *)
(* task of a run whenever it can go on                                     *)
(***************************************************************************)
\* a self-loop, cycles of two and of three nodes, a cycle whose nodes B and
\* C are called with the value of x, which C changes and the edge out of C
\* tests, and a chain of
\* LoopLimit - 1 nodes that leads into a cycle of two
CycleDefinitions ==
    LET a == NodeDef("A", "set_x", NoParams)
        b == NodeDef("B", "say", NoParams)
        c == NodeDef("C", "set_xy", NoParams)
        edge(from, to) == EdgeDef(from, to, NoCondition)
        def(ns, es) == [nodes |-> ns, edges |-> es, start_node |-> Null]
        lead == LoopLimit - 1
    IN  {def(<<a>>, <<edge("A", "A")>>),
         def(<<a, b>>, <<edge("A", "B"), edge("B", "A")>>),
         def(<<a, b, c>>, <<edge("A", "B"), edge("B", "C"), edge("C", "A")>>),
         def(<<a, NodeDef("B", "echo", "v" :> PyStr(StateRef("x"))),
               NodeDef("C", "set_xy", "v" :> PyStr(StateRef("x")))>>,
             <<edge("A", "B"), edge("B", "C"),
               EdgeDef("C", "B", Condition("eq", "x", PyInt(2)))>>),
         def([i \in 1..lead |-> NodeDef(ChainNode(i), "set_x", NoParams)]
                \o <<a, b>>,
             [i \in 1..(lead - 1) |-> edge(ChainNode(i), ChainNode(i + 1))]
                \o <<edge(ChainNode(lead), "A"), edge("A", "B"),
                     edge("B", "A")>>)}

InitCycles ==
    /\ \E def \in CycleDefinitions :
            /\ graphs = ("g1" :> FromDefinition(def))
            /\ graph_store = ("g1" :> def)
    /\ reply = NoReply
    /\ run_graph = [r \in RunIds |-> NoGraph]
    /\ runs = <<>>
    /\ pc = [r \in RunIds |-> "idle"]
    /\ path = [r \in RunIds |-> "none"]
    /\ current_node = [r \in RunIds |-> Null]
    /\ visited_nodes = [r \in RunIds |-> {}]
    /\ iterations = [r \in RunIds |-> 0]
    /\ exc = [r \in RunIds |-> Null]
    /\ kwargs = [r \in RunIds |-> NoParams]
    /\ events = <<>>
    /\ store = EmptyStore
    /\ save_failures = 0
    /\ request = [r \in RunIds |-> NoRequest]
    /\ event_listeners = <<"workflow_event_listener">>
    /\ emission = NoEmission
    /\ listener_errors = {}

\* asyncio runs every task that is ready
SpecCycles == InitCycles /\ [][Next]_vars /\ WF_vars(Next)

(***************************************************************************)
(* Specification of two runs of one graph, started one after the other:    *)
(* the runs hold the same graph object                                     *)
(***************************************************************************)
\* the graph of CycleDefinitions that has a node with parameters
InitShared ==
    /\ InitCycles
    /\ \E i \in DOMAIN graph_store["g1"].nodes :
            graph_store["g1"].nodes[i].params # NoParams

\* the task that drives a run takes its next stretch; the caller awaits the
\* first run_workflow before it calls the second
NextShared ==
    \E r \in RunIds :
        \/ /\ \A q \in AwaitedBefore(r) : pc[q] \in {"done", "raised"}
           /\ RunWorkflow(r, "g1", <<>>)
        \/ ExecuteStart(r)
        \/ Iterate(r)
        \/ CallTool(r)
        \/ ToolReturn(r)
        \/ Route(r)
        \/ WorkflowCompleted(r)
        \/ WorkflowFailed(r)

SpecShared == InitShared /\ [][NextShared]_vars

(***************************************************************************)
(* Specification of runs of the summarization workflow                     *)
(* (app/workflows/llm_summarization.py)                                    *)
(***************************************************************************)
\* create_llm_summarization_workflow()
workflow_definition ==
    LET ref(key) == PyStr(StateRef(key))
        edge(from, to) == EdgeDef(from, to, NoCondition)
        needs_refinement(value) ==
            Condition("eq", "needs_refinement", PyBool(value))
    IN  [start_node |-> "split_text",
         nodes |-> <<
            NodeDef("split_text", "split_text",
                ("text" :> ref("input_text")) @@ ("chunk_size" :> PyInt(1500))
                    @@ ("overlap" :> PyInt(200))),
            NodeDef("llm_generate_summaries", "process_chunks_llm",
                ("chunks" :> ref("split_text_result"))
                    @@ ("max_length" :> PyInt(300))),
            NodeDef("merge_summaries", "merge_summaries",
                "summaries" :> ref("chunk_summaries")),
            NodeDef("llm_refine_summary", "llm_refine_summary",
                ("original_text" :> ref("input_text"))
                    @@ ("summary" :> ref("merge_summaries_result"))
                    @@ ("target_length" :> ref("target_length"))),
            NodeDef("quality_check", "llm_quality_assessment",
                ("original_text" :> ref("input_text"))
                    @@ ("summary" :> ref("llm_refine_summary_result"))
                    @@ ("target_length" :> ref("target_length"))),
            NodeDef("finish", "finalize_summary",
                "summary" :> ref("llm_refine_summary_result"))>>,
         edges |-> <<
            edge("split_text", "llm_generate_summaries"),
            edge("llm_generate_summaries", "merge_summaries"),
            edge("merge_summaries", "llm_refine_summary"),
            edge("llm_refine_summary", "quality_check"),
            EdgeDef("quality_check", "llm_refine_summary",
                    needs_refinement(TRUE)),
            EdgeDef("quality_check", "finish", needs_refinement(FALSE))>>]

InitLlm ==
    /\ graphs = ("g1" :> FromDefinition(workflow_definition))
    /\ graph_store = ("g1" :> workflow_definition)
    /\ reply = NoReply
    /\ run_graph = [r \in RunIds |-> NoGraph]
    /\ runs = <<>>
    /\ pc = [r \in RunIds |-> "idle"]
    /\ path = [r \in RunIds |-> "none"]
    /\ current_node = [r \in RunIds |-> Null]
    /\ visited_nodes = [r \in RunIds |-> {}]
    /\ iterations = [r \in RunIds |-> 0]
    /\ exc = [r \in RunIds |-> Null]
    /\ kwargs = [r \in RunIds |-> NoParams]
    /\ events = <<>>
    /\ store = EmptyStore
    /\ save_failures = 0
    /\ request = [r \in RunIds |-> NoRequest]
    /\ event_listeners = <<"workflow_event_listener">>
    /\ emission = NoEmission
    /\ listener_errors = {}

\* the run is started on a text or on the empty text, with the target
\* length of the quick test, or on an empty state
NextLlm ==
    \E r \in EngineRuns :
        \/ \E input_text \in {PyStr("text"), PyStr("")} :
                RunWorkflow(r, "g1", ("input_text" :> input_text)
                                        @@ ("target_length" :> PyInt(200)))
        \/ RunWorkflow(r, "g1", <<>>)
        \/ ExecuteStart(r)
        \/ Iterate(r)
        \/ CallTool(r)
        \/ ToolReturn(r)
        \/ Route(r)
        \/ WorkflowCompleted(r)
        \/ WorkflowFailed(r)

SpecLlm == InitLlm /\ [][NextLlm]_vars

(***************************************************************************)
(* Specification of the two execution paths side by side: run r1 is        *)
(* started through Engine.run_workflow and, when that call is over, run r2 *)
(* through POST /graph/run                                                 *)
(***************************************************************************)
NextPaths ==
    \/ \E graph_id \in GraphIds, initial_state \in InitialStates :
            \/ RunWorkflow("r1", graph_id, initial_state)
            \/ /\ pc["r1"] \in {"done", "raised"}
               /\ RunWorkflowEndpoint("r2", graph_id, initial_state)
    \/ \E r \in RunIds :
            \/ ExecuteWorkflowAsync(r)
            \/ ExecuteStart(r)
            \/ Iterate(r)
            \/ CallTool(r)
            \/ ToolReturn(r)
            \/ Route(r)
            \/ WorkflowCompleted(r)
            \/ WorkflowFailed(r)
            \/ AsyncCompleted(r)
            \/ AsyncCompletedSave(r)
            \/ AsyncFailed(r)
            \/ AsyncFailedSave(r)

SpecPaths == InitMulti /\ [][NextPaths]_vars

(***************************************************************************)
(* Specification of a run started through POST /graph/run on a graph whose  *)
(* definition is complete or lacks a part; the event loop resumes the task *)
(* whenever it can go on                                                   *)
(***************************************************************************)
SpecBackground == InitGraphs /\ [][NextAsync]_vars /\ WF_vars(NextAsync)

(***************************************************************************)
(* Properties                                                              *)
(***************************************************************************)
\* the events of the log that carry run_id r, in order
EventsOf(r) == SelectSeq(events, LAMBDA e : e.run_id = r)

\* the last NodeExecution of run r
LastExecution(r) == runs[r].node_executions[Len(runs[r].node_executions)]

\* the coroutine that drives run r has ended
Ended(r) == pc[r] \in {"done", "raised", "crashed"}

\* C1: when the tool of node N has failed (node_failed was emitted for N),
\* the last execution record is the one of N, it is failed with an error,
\* the failure is on its way to the caller, and once run_workflow has ended
\* the run is failed.
C1_ToolFailureFailsRun ==
    \A r \in DOMAIN runs :
        \A i \in DOMAIN events :
            (events[i].run_id = r /\ events[i].event_type = "node_failed")
            => /\ runs[r].node_executions # <<>>
               /\ LastExecution(r).node_id = events[i].node_id
               /\ LastExecution(r).status = "failed"
               /\ LastExecution(r).error # Null
               /\ pc[r] \in {"except", "raised"}
               /\ exc[r] = LastExecution(r).error
               /\ Ended(r) => /\ runs[r].status = "failed"
                              /\ runs[r].error # Null

\* a run whose second node failed, after run_workflow raised
C1_Witness ==
    /\ "r1" \in DOMAIN runs
    /\ pc["r1"] = "raised"
    /\ runs["r1"].status = "failed"
    /\ Len(runs["r1"].node_executions) = 2
    /\ runs["r1"].node_executions[1].status = "completed"
    /\ runs["r1"].node_executions[2].status = "failed"
    /\ runs["r1"].node_executions[2].error = "Tool failed"

NodeEnds == {"node_completed", "node_failed"}
WorkflowEnds == {"workflow_completed", "workflow_failed"}

\* C2: the events of a run_workflow call: workflow_started first and only
\* first; node_started is followed at once by node_completed or node_failed
\* of the same node, and these two follow nothing else; workflow_completed
\* or workflow_failed is the last event, only once the call has ended, and
\* it is workflow_completed iff the run is completed and workflow_failed iff
\* the run is failed.
C2_EventTraceShape ==
    \A r \in DOMAIN runs :
        LET E == EventsOf(r)
        IN  /\ E # <<>>
            /\ \A i \in DOMAIN E :
                    (E[i].event_type = "workflow_started") <=> (i = 1)
            /\ \A i \in DOMAIN E :
                    E[i].event_type = "node_started"
                    => IF i = Len(E) THEN pc[r] \in {"sleep", "tool"}
                       ELSE /\ E[i + 1].event_type \in NodeEnds
                            /\ E[i + 1].node_id = E[i].node_id
            /\ \A i \in DOMAIN E :
                    E[i].event_type \in NodeEnds
                    => /\ i > 1
                       /\ E[i - 1].event_type = "node_started"
                       /\ E[i - 1].node_id = E[i].node_id
            /\ \A i \in DOMAIN E :
                    E[i].event_type \in WorkflowEnds
                    => i = Len(E) /\ Ended(r)
            /\ Ended(r)
               => /\ E[Len(E)].event_type \in WorkflowEnds
                  /\ runs[r].status \in {"completed", "failed"}
                  /\ (E[Len(E)].event_type = "workflow_completed")
                        <=> (runs[r].status = "completed")
                  /\ (E[Len(E)].event_type = "workflow_failed")
                        <=> (runs[r].status = "failed")

\* a call that ended after one node completed and the next one failed
C2_Witness ==
    /\ "r1" \in DOMAIN runs
    /\ pc["r1"] = "raised"
    /\ Len(events) = 6
    /\ events[3].event_type = "node_completed"
    /\ events[5].event_type = "node_failed"
    /\ events[6].event_type = "workflow_failed"

\* C3: once the status of a run is completed or failed, its status, error,
\* current state and node executions never change again.
C3_TerminalRunImmutable ==
    [][\A r \in DOMAIN runs :
          runs[r].status \in {"completed", "failed"}
          => /\ r \in DOMAIN runs'
             /\ runs'[r].status = runs[r].status
             /\ runs'[r].error = runs[r].error
             /\ runs'[r].current_state = runs[r].current_state
             /\ runs'[r].node_executions = runs[r].node_executions]_vars

\* graph.execute has been entered for run r and has neither returned nor
\* raised
Traversing(r) == pc[r] \in {"execute", "loop", "sleep", "tool", "route"}

\* C4: the status of a run is pending until traversal starts and running
\* while graph.execute is active, in particular while one of its node
\* executions is running.
C4_RunningWhileTraversing ==
    \A r \in DOMAIN runs :
        /\ Traversing(r) => runs[r].status = "running"
        /\ (\E i \in DOMAIN runs[r].node_executions :
                runs[r].node_executions[i].status = "running")
           => runs[r].status = "running"

\* graph.execute has returned or raised for run r
TraversalEnded(r) ==
    pc[r] \in {"returned", "except", "done", "raised", "save_completed",
               "save_failed", "crashed"}

\* C5 as stated: once traversal has ended, run.current_node is the node id of
\* the last record of run.node_executions.
C5_CurrentNodeIsLastExecuted ==
    \A r \in DOMAIN runs :
        (TraversalEnded(r) /\ runs[r].node_executions # <<>>)
        => runs[r].current_node = LastExecution(r).node_id

\* C5 as amended: once traversal has ended, run.current_node is the last
\* node execute entered: the node of the last record (None when no node was
\* entered), unless traversal ended with node-not-found, and then it is the
\* missing node, which has no record.
C5_CurrentNodeIsLastEntered ==
    \A r \in DOMAIN runs :
        TraversalEnded(r)
        => IF exc[r] = "Node not found"
           THEN /\ runs[r].current_node = current_node[r]
                /\ runs[r].current_node \notin DOMAIN GraphOf(r).nodes
                /\ \A i \in DOMAIN runs[r].node_executions :
                        runs[r].node_executions[i].node_id # runs[r].current_node
           ELSE IF runs[r].node_executions = <<>>
           THEN runs[r].current_node = Null
           ELSE runs[r].current_node = LastExecution(r).node_id

\* node A completed and its edge led to "Z", which is no node of the graph:
\* run_workflow raised, the current node of the run is "Z" and the only
\* record is the one of A
C5_Witness ==
    /\ "r1" \in DOMAIN runs
    /\ pc["r1"] = "raised"
    /\ runs["r1"].error = "Node not found"
    /\ runs["r1"].current_node = "Z"
    /\ Len(runs["r1"].node_executions) = 1
    /\ LastExecution("r1").node_id = "A"
    /\ LastExecution("r1").status = "completed"

\* the loop check stopped the traversal of run r: an iteration was counted
\* for a node of the graph and no record was appended for it
GuardStopped(r) ==
    /\ pc[r] # "loop"
    /\ iterations[r] > Len(runs[r].node_executions)
    /\ current_node[r] \in DOMAIN GraphOf(r).nodes

\* C6: a node that is the only one executed is executed at most 10 times;
\* when the loop check stops the traversal, at least 10 nodes were executed,
\* the last one completed, execute returns without raising and run_workflow
\* marks the run completed, never failed.
C6_SelfLoopHalts ==
    \A r \in DOMAIN runs :
        LET executions == runs[r].node_executions
        IN  /\ (\A i \in DOMAIN executions :
                    executions[i].node_id = executions[1].node_id)
               => Len(executions) <= LoopLimit
            /\ GuardStopped(r)
               => /\ Len(executions) >= LoopLimit
                  /\ Len(executions) = iterations[r] - 1
                  /\ LastExecution(r).status = "completed"
                  /\ exc[r] = Null
                  /\ pc[r] \in {"returned", "done"}
                  /\ runs[r].status # "failed"
                  /\ pc[r] = "done" => runs[r].status = "completed"

\* node A with a self-loop edge whose condition x == 1 stays true: ten
\* executions of A, then the run is completed
C6_Witness ==
    /\ "r1" \in DOMAIN runs
    /\ pc["r1"] = "done"
    /\ runs["r1"].status = "completed"
    /\ graphs["g1"].edges =
            <<Edge(EdgeDef("A", "A", Condition("eq", "x", PyInt(1))))>>
    /\ Len(runs["r1"].node_executions) = LoopLimit
    /\ \A i \in DOMAIN runs["r1"].node_executions :
            /\ runs["r1"].node_executions[i].node_id = "A"
            /\ runs["r1"].node_executions[i].status = "completed"
    /\ iterations["r1"] = LoopLimit + 1

\* the while condition stopped the traversal of run r: a next node was
\* chosen and never entered
CeilingStopped(r) ==
    /\ pc[r] # "loop"
    /\ iterations[r] = MaxIterations
    /\ current_node[r] \notin visited_nodes[r]

\* C7: no run has more than 100 node executions; when the ceiling stops the
\* traversal, 100 nodes were executed, execute returns without raising and
\* run_workflow marks the run completed, never failed.
C7_IterationCeiling ==
    \A r \in DOMAIN runs :
        /\ Len(runs[r].node_executions) <= MaxIterations
        /\ iterations[r] <= MaxIterations
        /\ CeilingStopped(r)
           => /\ Len(runs[r].node_executions) = MaxIterations
              /\ LastExecution(r).status = "completed"
              /\ exc[r] = Null
              /\ pc[r] \in {"returned", "done"}
              /\ runs[r].status # "failed"
              /\ pc[r] = "done" => runs[r].status = "completed"

\* the chain of more than 100 nodes: 100 executed, the next one chosen and
\* not entered, the run completed
C7_Witness ==
    /\ "r1" \in DOMAIN runs
    /\ pc["r1"] = "done"
    /\ runs["r1"].status = "completed"
    /\ Len(runs["r1"].node_executions) = MaxIterations
    /\ current_node["r1"] = ChainNode(MaxIterations + 1)
    /\ runs["r1"].current_node = ChainNode(MaxIterations)

\* the edges that leave node_id
OutgoingEdges(graph, node_id) ==
    {i \in DOMAIN graph.edges : graph.edges[i].from_node = node_id}

\* edge i of the graph is unconditional or its condition holds on data
EdgeSatisfied(graph, i, data) ==
    \/ graph.edges[i].condition = NoCondition
    \/ /\ ~ConditionRaises(graph.edges[i].condition, data)
       /\ ConditionFunc(graph.edges[i].condition, data)

\* the last node of run r completed, the routing after it is over, and no
\* edge that leaves it is satisfied
NoNextNode(r) ==
    /\ runs[r].node_executions # <<>>
    /\ LastExecution(r).status = "completed"
    /\ pc[r] # "route"
    /\ \A i \in OutgoingEdges(GraphOf(r), LastExecution(r).node_id) :
            ~EdgeSatisfied(GraphOf(r), i, runs[r].current_state)

\* traversal stopped without error, and the run is completed once
\* run_workflow has ended
StoppedWithoutError(r) ==
    /\ pc[r] \in {"returned", "done"}
    /\ exc[r] = Null
    /\ runs[r].status # "failed"
    /\ runs[r].error = Null
    /\ pc[r] = "done" => runs[r].status = "completed"

Least(S) == CHOOSE i \in S : \A j \in S : i <= j

\* the satisfied edges that leave node_id
SatisfiedEdges(graph, node_id, data) ==
    {i \in OutgoingEdges(graph, node_id) : EdgeSatisfied(graph, i, data)}

\* C9: when the routing after a node does not raise, execute leaves the loop
\* if no edge that leaves the node is satisfied and otherwise goes on with
\* the target of the first satisfied edge in the order of the edge list;
\* the next pass of the loop appends exactly one record, for that node, or
\* none.
C9_FirstSatisfiedEdgeWins ==
    [][\A r \in DOMAIN runs :
          LET satisfied == SatisfiedEdges(GraphOf(r), current_node[r],
                                          runs[r].current_state)
          IN  /\ (pc[r] = "route" /\ pc'[r] \notin {"route", "except"})
                 => IF satisfied = {}
                    THEN pc'[r] = "returned"
                    ELSE /\ pc'[r] = "loop"
                         /\ current_node'[r] =
                                GraphOf(r).edges[Least(satisfied)].to_node
              /\ (pc[r] = "loop" /\ pc'[r] # "loop")
                 => \/ runs'[r].node_executions = runs[r].node_executions
                    \/ /\ pc'[r] = "sleep"
                       /\ Len(runs'[r].node_executions) =
                                Len(runs[r].node_executions) + 1
                       /\ SubSeq(runs'[r].node_executions, 1,
                                 Len(runs[r].node_executions)) =
                                runs[r].node_executions
                       /\ runs'[r].node_executions[
                                Len(runs'[r].node_executions)].node_id =
                                current_node[r]]_vars

\* two satisfied edges with different targets left the node before the last
\* one, and the node of the last record is the target of the first
C9_Witness ==
    /\ "r1" \in DOMAIN runs
    /\ pc["r1"] = "sleep"
    /\ Len(runs["r1"].node_executions) = 2
    /\ LET graph == graphs["g1"]
           satisfied == SatisfiedEdges(graph,
                            runs["r1"].node_executions[1].node_id,
                            runs["r1"].current_state)
       IN  /\ satisfied = {1, 2}
           /\ graph.edges[1].to_node # graph.edges[2].to_node
           /\ LastExecution("r1").node_id = graph.edges[1].to_node

\* C10: the step in which node N completes takes the state to the state
\* with the result applied: a dict result is merged key by key, its keys
\* overwritten and added, every other key kept and no other key created;
\* any other result is set under "N_result", every other key kept.
C10_ResultApplied ==
    [][\A r \in DOMAIN runs :
          (pc[r] = "tool" /\ pc'[r] = "route")
          => LET old == runs[r].current_state
                 new == runs'[r].current_state
                 result == runs'[r].node_executions[
                                Len(runs'[r].node_executions)].output.result
                 key == current_node[r] \o "_result"
             IN  IF result.kind = "dict"
                 THEN /\ DOMAIN new = (DOMAIN old) \cup (DOMAIN result.d)
                      /\ \A k \in DOMAIN result.d : new[k] = result.d[k]
                      /\ \A k \in (DOMAIN old) \ (DOMAIN result.d) :
                            new[k] = old[k]
                 ELSE /\ DOMAIN new = (DOMAIN old) \cup {key}
                      /\ new[key] = result.v
                      /\ \A k \in (DOMAIN old) \ {key} : new[k] = old[k]]_vars

\* A stored a value under "A_result", then the dict of B overwrote x, added
\* y and left z and "A_result" alone
C10_Witness ==
    /\ "r1" \in DOMAIN runs
    /\ pc["r1"] = "route"
    /\ Len(runs["r1"].node_executions) = 2
    /\ LastExecution("r1").node_id = "B"
    /\ runs["r1"].initial_state = (("x" :> PyInt(0)) @@ ("z" :> PyInt(5)))
    /\ runs["r1"].current_state =
            (("x" :> PyInt(2)) @@ ("y" :> PyInt(1)) @@ ("z" :> PyInt(5))
                @@ ("A_result" :> PyInt(0)))

\* C11: a completed run has only completed records, each with an output and
\* without an error.
C11_CompletedRunAllCompleted ==
    \A r \in DOMAIN runs :
        runs[r].status = "completed"
        => \A i \in DOMAIN runs[r].node_executions :
                /\ runs[r].node_executions[i].status = "completed"
                /\ runs[r].node_executions[i].output # NoOutput
                /\ runs[r].node_executions[i].error = Null

\* A -> B without condition from the empty state, A returned {"x": 1} and B
\* returned "done": the run is completed with two completed records
C11_Witness ==
    /\ "r1" \in DOMAIN runs
    /\ runs["r1"].status = "completed"
    /\ runs["r1"].initial_state = <<>>
    /\ runs["r1"].current_state =
            (("x" :> PyInt(1)) @@ ("B_result" :> PyStr("done")))
    /\ Len(runs["r1"].node_executions) = 2
    /\ runs["r1"].node_executions[1].output =
            [result |-> DictResult("x" :> PyInt(1))]
    /\ runs["r1"].node_executions[2].output =
            [result |-> ValResult(PyStr("done"))]

\* the params entry value is a string that starts with "$state."
IsStateToken(value) ==
    \E key \in StateKeys : value = PyStr("$state." \o key)

\* the key a state token names
TokenKey(value) == CHOOSE key \in StateKeys : value = PyStr("$state." \o key)

\* C12: the step that resolves the parameters of a node hands the tool one
\* argument per entry of the node's params: for a string "$state.<key>" the
\* value the run's current state holds under <key> at that moment, None when
\* the key is absent; for any other value, a list holding such a string
\* included, the value itself.  The params of the node are left as they were.
C12_ParamsResolved ==
    [][\A r \in DOMAIN runs :
          (pc[r] = "sleep" /\ pc'[r] = "tool")
          => LET params == GraphOf(r).nodes[current_node[r]].params
                 data == runs[r].current_state
             IN  /\ DOMAIN kwargs'[r] = DOMAIN params
                 /\ \A k \in DOMAIN params :
                        IF IsStateToken(params[k])
                        THEN IF TokenKey(params[k]) \in DOMAIN data
                             THEN kwargs'[r][k] = data[TokenKey(params[k])]
                             ELSE kwargs'[r][k] = PyNone
                        ELSE kwargs'[r][k] = params[k]
                 /\ graphs' = graphs
                 /\ runs' = runs]_vars

\* B is about to be called: "$state.x" was resolved to the 1 that A wrote
\* over the initial 0, and the list that holds "$state.x" was passed as it is
C12_Witness ==
    /\ "r1" \in DOMAIN runs
    /\ pc["r1"] = "tool"
    /\ current_node["r1"] = "B"
    /\ runs["r1"].initial_state = (("x" :> PyInt(0)) @@ ("z" :> PyInt(5)))
    /\ graphs["g1"].nodes["B"].params =
            (("v" :> PyStr(StateRef("x"))) @@ ("w" :> PyList(StateRef("x"))))
    /\ kwargs["r1"] = (("v" :> PyInt(1)) @@ ("w" :> PyList(StateRef("x"))))

\* "$state.y" names a key no node has set: B is called with None, and the
\* literal 7 is passed unchanged
C12_WitnessAbsent ==
    /\ "r1" \in DOMAIN runs
    /\ pc["r1"] = "tool"
    /\ current_node["r1"] = "B"
    /\ "y" \notin DOMAIN runs["r1"].current_state
    /\ graphs["g1"].nodes["B"].params =
            (("v" :> PyStr(StateRef("y"))) @@ ("w" :> PyInt(7)))
    /\ kwargs["r1"] = (("v" :> PyNone) @@ ("w" :> PyInt(7)))

\* the value the state holds under key, None when the key is absent
Actual(data, key) == IF key \in DOMAIN data THEN data[key] ELSE PyNone

\* the comparison value of a condition: what the state holds under <k> for
\* the string "$state.<k>", the value itself otherwise
Resolved(data, value) ==
    IF IsStateToken(value) THEN Actual(data, TokenKey(value)) ELSE value

\* the routing after node A of run r, whose only outgoing edge is i, takes
\* the edge / takes no edge / raises
RouteStep(r) == pc[r] = "route" /\ pc'[r] # "route"
EdgeTaken(r, i) ==
    pc'[r] = "loop" /\ current_node'[r] = GraphOf(r).edges[i].to_node
NoEdgeTaken(r) == pc'[r] = "returned" /\ exc'[r] = Null
RouteRaised(r) == pc'[r] = "except" /\ exc'[r] = "TypeError"

\* the ordered comparison a <type> b of two values of one type
Compare(type, a, b) ==
    CASE type = "gt" -> Less(b, a)
      [] type = "lt" -> Less(a, b)
      [] type = "gte" -> Less(b, a) \/ a = b
      [] type = "lte" -> Less(a, b) \/ a = b

\* C13: at the routing after a node whose only outgoing edge has a
\* comparison condition, with actual the value of the state under the key
\* and resolved the resolved comparison value: an eq edge is taken iff
\* actual equals resolved (also when both are None); a gt, lt, gte or lte
\* edge is not taken when either is None and otherwise is taken iff the
\* ordered comparison holds, and the evaluation raises iff the ordered
\* comparison does (an int against a str).
C13_ComparisonConditions ==
    [][\A r \in DOMAIN runs :
          RouteStep(r) =>
            \A i \in OutgoingEdges(GraphOf(r), current_node[r]) :
              LET cond == GraphOf(r).edges[i].condition
                  actual == Actual(runs[r].current_state, cond.key)
                  resolved == Resolved(runs[r].current_state, cond.value)
              IN  (/\ OutgoingEdges(GraphOf(r), current_node[r]) = {i}
                   /\ cond.type \in {"eq", "gt", "lt", "gte", "lte"})
                  => IF cond.type = "eq"
                     THEN IF actual = resolved THEN EdgeTaken(r, i)
                          ELSE NoEdgeTaken(r)
                     ELSE IF actual = PyNone \/ resolved = PyNone
                     THEN NoEdgeTaken(r)
                     ELSE IF actual.t # resolved.t THEN RouteRaised(r)
                     ELSE IF Compare(cond.type, actual, resolved)
                     THEN EdgeTaken(r, i)
                     ELSE NoEdgeTaken(r)]_vars

\* A -> B on x < "$state.z": the edge was taken with the x = 1 that A wrote
\* and the z = 5 of the initial state
C13_Witness ==
    /\ "r1" \in DOMAIN runs
    /\ pc["r1"] = "loop"
    /\ current_node["r1"] = "B"
    /\ Len(runs["r1"].node_executions) = 1
    /\ graphs["g1"].edges =
            <<Edge(EdgeDef("A", "B",
                           Condition("lt", "x", PyStr(StateRef("z")))))>>
    /\ runs["r1"].current_state = (("x" :> PyInt(1)) @@ ("z" :> PyInt(5)))

\* the outgoing edges of the node just executed are either one edge i on
\* exists or not_exists, or the edge i on exists followed by an edge on
\* not_exists of the same key
ExistencePair(graph, i, j) ==
    /\ graph.edges[i].condition.type = "exists"
    /\ graph.edges[j].condition.type = "not_exists"
    /\ graph.edges[i].condition.key = graph.edges[j].condition.key

\* what the routing does at existence conditions when `holds` says whether
\* exists holds for a key: a single exists edge is taken iff it holds, a
\* single not_exists edge iff it does not, and of an exists edge and a
\* not_exists edge on one key exactly one is taken
ExistenceRouting(r, holds(_, _)) ==
    LET graph == GraphOf(r)
        out == OutgoingEdges(graph, current_node[r])
        data == runs[r].current_state
    IN  \A i \in out :
            LET cond == graph.edges[i].condition
            IN  /\ (out = {i} /\ cond.type = "exists")
                   => IF holds(data, cond.key) THEN EdgeTaken(r, i)
                      ELSE NoEdgeTaken(r)
                /\ (out = {i} /\ cond.type = "not_exists")
                   => IF holds(data, cond.key) THEN NoEdgeTaken(r)
                      ELSE EdgeTaken(r, i)
                /\ \A j \in out :
                      (out = {i, j} /\ ExistencePair(graph, i, j))
                      => IF holds(data, cond.key) THEN EdgeTaken(r, i)
                         ELSE EdgeTaken(r, j)

\* the key is present in the state mapping
KeyPresent(data, key) == key \in DOMAIN data

\* the key is present in the state mapping with a value other than None
KeyHoldsValue(data, key) == key \in DOMAIN data /\ data[key] # PyNone

\* C14 as stated: exists holds exactly when the key is present in the state,
\* not_exists exactly when it is absent, also for a key that holds None.
C14_ExistsIffPresent ==
    [][\A r \in DOMAIN runs :
          RouteStep(r) => ExistenceRouting(r, KeyPresent)]_vars

\* C14 as amended: exists holds exactly when the key is present with a value
\* other than None, not_exists exactly when the key is absent or holds None;
\* exactly one of the two holds.
C14_ExistsIffNotNone ==
    [][\A r \in DOMAIN runs :
          RouteStep(r) => ExistenceRouting(r, KeyHoldsValue)]_vars

\* the tool of A returned None, stored under "A_result": of the edges
\* A -> B on exists "A_result" and A -> Z on not_exists "A_result", the
\* second was taken
C14_Witness ==
    /\ "r1" \in DOMAIN runs
    /\ pc["r1"] = "loop"
    /\ current_node["r1"] = "Z"
    /\ "A_result" \in DOMAIN runs["r1"].current_state
    /\ runs["r1"].current_state["A_result"] = PyNone
    /\ Len(graphs["g1"].edges) = 2
    /\ ExistencePair(graphs["g1"], 1, 2)
    /\ graphs["g1"].edges[1].condition.key = "A_result"

\* the condition types create_condition knows
KnownConditionTypes ==
    {"eq", "gt", "lt", "gte", "lte", "exists", "not_exists"}

\* C15: at the routing after a node whose only outgoing edge has a condition
\* of a type outside eq, gt, lt, gte, lte, exists and not_exists, the edge is
\* not taken and nothing is raised, whatever the state holds.
C15_UnknownTypeNeverMatches ==
    [][\A r \in DOMAIN runs :
          RouteStep(r) =>
            \A i \in OutgoingEdges(GraphOf(r), current_node[r]) :
              (/\ OutgoingEdges(GraphOf(r), current_node[r]) = {i}
               /\ GraphOf(r).edges[i].condition # NoCondition
               /\ GraphOf(r).edges[i].condition.type \notin KnownConditionTypes)
              => NoEdgeTaken(r)]_vars

\* A -> B on "contains" x 1 with x = 1 in the state: B was not executed and
\* the run is completed
C15_Witness ==
    /\ "r1" \in DOMAIN runs
    /\ pc["r1"] = "done"
    /\ runs["r1"].status = "completed"
    /\ Len(runs["r1"].node_executions) = 1
    /\ runs["r1"].current_state = ("x" :> PyInt(1))
    /\ graphs["g1"].edges =
            <<Edge(EdgeDef("A", "B", Condition("contains", "x", PyInt(1))))>>

\* C16: from its creation on, the initial_state of a run equals the mapping
\* the caller passed, whatever the nodes set or merge into current_state,
\* and the mapping the caller holds stays what it was.
C16_InitialStateSnapshot ==
    [][\A r \in RunIds :
          /\ r \in DOMAIN runs'
             => runs'[r].initial_state = request'[r].initial_state
          /\ request[r] # NoRequest => request'[r] = request[r]]_vars

\* a run that started from {x: 0, z: 5}: A overwrote x and B added y; the
\* initial state still holds x = 0 and no y
C16_Witness ==
    /\ "r1" \in DOMAIN runs
    /\ pc["r1"] = "done"
    /\ request["r1"].initial_state = (("x" :> PyInt(0)) @@ ("z" :> PyInt(5)))
    /\ runs["r1"].initial_state = (("x" :> PyInt(0)) @@ ("z" :> PyInt(5)))
    /\ runs["r1"].current_state =
            (("x" :> PyInt(2)) @@ ("y" :> PyInt(1)) @@ ("z" :> PyInt(5)))
    /\ Len(runs["r1"].node_executions) = 2

\* record i of run r has reached completed or failed
Finished(r, i) ==
    runs[r].node_executions[i].status \in {"completed", "failed"}

\* C17: in every step the node executions of a run stay as they are, or one
\* running record, for the node being entered, is appended at the end, or
\* the last record goes from running to completed or failed; no record is
\* removed, and a record that reached completed or failed is never changed,
\* also when its node is entered again.
C17_ExecutionsAppendOnly ==
    [][\A r \in DOMAIN runs :
          LET old == runs[r].node_executions
              new == runs'[r].node_executions
          IN  /\ r \in DOMAIN runs'
              /\ Len(new) >= Len(old)
              /\ Len(new) <= Len(old) + 1
              /\ \A i \in DOMAIN old :
                    \/ new[i] = old[i]
                    \/ /\ i = Len(old)
                       /\ Len(new) = Len(old)
                       /\ old[i].status = "running"
                       /\ new[i].status \in {"completed", "failed"}
                       /\ new[i].node_id = old[i].node_id
              /\ Len(new) = Len(old) + 1
                 => /\ pc[r] = "loop"
                    /\ new[Len(new)].node_id = current_node[r]
                    /\ new[Len(new)].status = "running"
              /\ (pc[r] = "loop" /\ pc'[r] = "sleep")
                 => Len(new) = Len(old) + 1]_vars

\* node A was entered a second time through its loop edge: a second record,
\* running, follows the completed record of the first pass
C17_Witness ==
    /\ "r1" \in DOMAIN runs
    /\ pc["r1"] = "sleep"
    /\ Len(runs["r1"].node_executions) = 2
    /\ runs["r1"].node_executions[1].node_id = "A"
    /\ runs["r1"].node_executions[1].status = "completed"
    /\ runs["r1"].node_executions[2].node_id = "A"
    /\ runs["r1"].node_executions[2].status = "running"

\* C18: at most one record of a run is running, and it is the last one;
\* every record before the last is completed, so no node was entered before
\* the record of the node before it became completed, and after a failed
\* record none follows.
C18_StrictlySequential ==
    \A r \in DOMAIN runs :
        LET executions == runs[r].node_executions
        IN  /\ \A i \in DOMAIN executions :
                    executions[i].status = "running" => i = Len(executions)
            /\ \A i \in DOMAIN executions :
                    i < Len(executions) => executions[i].status = "completed"
            /\ \A i \in DOMAIN executions :
                    executions[i].status = "running" <=>
                        (i = Len(executions) /\ pc[r] \in {"sleep", "tool"})

\* B is running, entered after the record of A became completed
C18_Witness ==
    /\ "r1" \in DOMAIN runs
    /\ pc["r1"] = "tool"
    /\ Len(runs["r1"].node_executions) = 2
    /\ runs["r1"].node_executions[1].node_id = "A"
    /\ runs["r1"].node_executions[1].status = "completed"
    /\ runs["r1"].node_executions[2].node_id = "B"
    /\ runs["r1"].node_executions[2].status = "running"

\* everything the engine holds for run q is left as it was
RunUntouched(q) ==
    /\ q \in DOMAIN runs => (q \in DOMAIN runs' /\ runs'[q] = runs[q])
    /\ q \notin DOMAIN runs => q \notin DOMAIN runs'
    /\ pc'[q] = pc[q]
    /\ current_node'[q] = current_node[q]
    /\ visited_nodes'[q] = visited_nodes[q]
    /\ iterations'[q] = iterations[q]
    /\ exc'[q] = exc[q]
    /\ kwargs'[q] = kwargs[q]

\* C19: every step is the step of one run and leaves the record of every
\* other run (current state, node executions, current node, status, error)
\* and its position as they were, also when both runs were created from the
\* same initial state and graph; and while a run is suspended in its tool
\* call or in the sleep before it, every other run that has not ended can
\* take its next step.
C19_RunsIndependent ==
    [][/\ \E r \in RunIds : \A q \in RunIds \ {r} : RunUntouched(q)
       /\ \A r \in RunIds : \A q \in RunIds \ {r} :
            (pc[r] \in {"sleep", "tool"} /\ ~Ended(q)) => ENABLED EngineStep(q)
      ]_vars

\* both runs were created from {x: 0, z: 5} on the graph whose node sets x:
\* r1 has completed with x = 1 while r2, suspended in its tool call, still
\* holds x = 0
C19_Witness ==
    /\ DOMAIN runs = {"r1", "r2"}
    /\ runs["r1"].graph_id = "g1"
    /\ runs["r2"].graph_id = "g1"
    /\ runs["r1"].initial_state = (("x" :> PyInt(0)) @@ ("z" :> PyInt(5)))
    /\ runs["r2"].initial_state = runs["r1"].initial_state
    /\ pc["r2"] = "tool"
    /\ pc["r1"] = "done"
    /\ runs["r1"].status = "completed"
    /\ runs["r1"].current_state = (("x" :> PyInt(1)) @@ ("z" :> PyInt(5)))
    /\ runs["r2"].current_state = runs["r2"].initial_state
    /\ runs["r2"].status = "pending"

\* the listeners one emit_event call invoked, in the order of the calls
CalledListeners(em) == [i \in DOMAIN em.calls |-> em.calls[i].listener]

\* the tools of runs r and q returned the same results: the graph of the
\* listener specification has the one node A, whose tool sets x to 1, and no
\* initial state holds x = 1, so the final data tell what the tool did
SameToolResults(r, q) == runs[r].current_state = runs[q].current_state

\* runs r and q were started with the same arguments
SameRequest(r, q) == request[r] = request[q]

\* C20: event listener isolation.  Whatever a listener raises while it
\* handles an event, the latest emit_event call invoked every registered
\* listener once, in registration order, and raised nothing to the engine;
\* no run carries a listener's failure as its error; and a run during whose
\* events listeners raised ends with the same status and the same node
\* history as a run of the same graph from the same initial state, with the
\* same tool results, during whose events no listener raised.
C20_ListenerIsolation ==
    /\ events # <<>> =>
            /\ emission.event = events[Len(events)]
            /\ CalledListeners(emission) = event_listeners
            /\ emission.error = Null
    /\ \A r \in DOMAIN runs :
            /\ exc[r] # "Listener failed"
            /\ runs[r].error # "Listener failed"
    /\ \A r \in RunIds : \A q \in RunIds \ {r} :
            (/\ Ended(r) /\ Ended(q)
             /\ SameRequest(r, q) /\ SameToolResults(r, q)
             /\ r \in listener_errors /\ q \notin listener_errors)
            => /\ runs[r].status = runs[q].status
               /\ runs[r].node_executions = runs[q].node_executions
               /\ pc[r] = pc[q]

\* C20 witness: a listener that raises is registered first and another one
\* after it; both runs were started with the same arguments and completed
\* with the same tool results; a listener raised during the events of the
\* first run and none during the events of the second
C20_Witness ==
    /\ Len(event_listeners) >= 2
    /\ event_listeners[1] = "broken"
    /\ Ended("r1") /\ Ended("r2")
    /\ SameRequest("r1", "r2") /\ SameToolResults("r1", "r2")
    /\ runs["r1"].status = "completed"
    /\ "r1" \in listener_errors /\ "r2" \notin listener_errors

\* C20 witness of the call itself: in the latest emit_event call the first
\* listener raised and the listeners registered after it returned
C20_WitnessLaterListenerCalled ==
    /\ Len(emission.calls) >= 2
    /\ emission.calls[1].outcome = "raised"
    /\ \A i \in 2..Len(emission.calls) : emission.calls[i].outcome = "returned"

\* C21: event emission is fire-and-forget relative to the run.  Whatever the
\* listeners do with an event, also when the call of one is slow or never
\* returns, a run that was created goes on and reaches a terminal status.
C21_RunReachesTerminalStatus ==
    \A r \in EngineRuns :
        (r \in DOMAIN runs)
            ~> (r \in DOMAIN runs /\ runs[r].status \in {"completed", "failed"})

\* C22: from the moment POST /graph/run has returned the run id, get_run and
\* the status query find the run.
C22_ReturnedRunIsRegistered ==
    \A r \in AsyncRuns :
        (path[r] = "async" /\ pc[r] # "idle")
            => /\ GetRun(r) # NoRun
               /\ GetWorkflowState(r) # {NoRun}

\* graph.execute has raised in the run_workflow call of run r
ExecuteFailed(r) ==
    r \in DOMAIN runs /\ path[r] = "engine" /\ pc[r] \in {"except", "raised"}

\* the last event of the log that carries run_id r
LastEventOf(r) == EventsOf(r)[Len(EventsOf(r))]

\* C23: failure is data.  When graph.execute has failed in run_workflow (a
\* tool failed, a node was not found, no start node is defined), the run is
\* in the run table; and once run_workflow has left, get_run returns it with
\* status failed, a non-null error and completed_at set, the last event of
\* the run is workflow_failed with that error, and the same error is raised
\* to the caller.  A run_workflow call that raised nothing ended completed.
C23_FailureIsData ==
    \A r \in EngineRuns :
        /\ ExecuteFailed(r) =>
            /\ GetRun(r) # NoRun
            /\ exc[r] # Null
            /\ pc[r] = "raised" =>
                /\ GetRun(r).status = "failed"
                /\ GetRun(r).error # Null
                /\ GetRun(r).error = exc[r]
                /\ GetRun(r).completed_at # Null
                /\ LastEventOf(r).event_type = "workflow_failed"
                /\ LastEventOf(r).error = GetRun(r).error
        /\ (r \in DOMAIN runs /\ Ended(r) /\ runs[r].status # "failed")
            => pc[r] = "done" /\ exc[r] = Null

\* run_workflow on the graph without nodes has raised "No start node
\* defined": the run is failed with that error and its two events are
\* workflow_started and workflow_failed
C23_Witness ==
    /\ ExecuteFailed("r1")
    /\ pc["r1"] = "raised"
    /\ graphs["g1"].nodes = <<>>
    /\ runs["r1"].error = "No start node defined"
    /\ runs["r1"].node_executions = <<>>
    /\ Len(events) = 2
    /\ events[1].event_type = "workflow_started"

\* run_workflow was called for run r with a graph id that is in no table
UnknownGraphRequested(r) ==
    request[r] # NoRequest /\ request[r].graph_id \notin DOMAIN graphs

\* C24: a run_workflow call with a graph id that is not in the graph table
\* raises "Graph not found" in its first step and changes nothing else: the
\* run table, the event log, the store and the graph table are as before,
\* and no run and no event of that call ever exists.
C24_UnknownGraphNoEffect ==
    [][\A r \in EngineRuns :
          /\ (pc[r] = "idle" /\ UnknownGraphRequested(r)')
                => /\ pc'[r] = "raised"
                   /\ exc'[r] = "Graph not found"
                   /\ runs' = runs
                   /\ events' = events
                   /\ store' = store
                   /\ emission' = emission
                   /\ graphs' = graphs
          /\ UnknownGraphRequested(r)'
                => /\ r \notin DOMAIN runs'
                   /\ EventsOf(r)' = <<>>
                   /\ graphs' = graphs
      ]_vars

\* run_workflow("g0", ...) has raised: no run, no event
C24_Witness ==
    /\ UnknownGraphRequested("r1")
    /\ request["r1"].graph_id = "g0"
    /\ pc["r1"] = "raised"
    /\ exc["r1"] = "Graph not found"
    /\ runs = <<>>
    /\ events = <<>>
    /\ DOMAIN graphs = {"g1"}

\* the traversal of run r has entered a node id that is no node of the graph
ReachedMissingNode(r) ==
    /\ r \in DOMAIN runs
    /\ runs[r].current_node # Null
    /\ runs[r].current_node \notin DOMAIN GraphOf(r).nodes

\* C25: a start node or an edge target that is no node of the graph is held
\* by the built graph and surfaces when the traversal reaches it: the run
\* fails with node-not-found, it has no record and no node_started or
\* node_failed event for the missing node, and the records of the nodes
\* executed before are all completed.  Until then the run executes the nodes
\* on its way.
C25_MissingNodeSurfacesAtTraversal ==
    \A r \in EngineRuns :
        /\ ReachedMissingNode(r) =>
            LET missing == runs[r].current_node
            IN  /\ pc[r] \in {"except", "raised"}
                /\ exc[r] = "Node not found"
                /\ pc[r] = "raised" => /\ runs[r].status = "failed"
                                       /\ runs[r].error = "Node not found"
                /\ \A i \in DOMAIN runs[r].node_executions :
                        /\ runs[r].node_executions[i].node_id # missing
                        /\ runs[r].node_executions[i].status = "completed"
                /\ \A i \in DOMAIN events :
                        events[i].run_id = r => events[i].node_id # missing
        /\ (r \in DOMAIN runs /\ exc[r] = "Node not found")
            => ReachedMissingNode(r)

\* the graph A -> B -> Z, where Z is no node: A and B completed, then
\* run_workflow raised node-not-found; five events, none for Z
C25_Witness ==
    /\ ReachedMissingNode("r1")
    /\ runs["r1"].current_node = "Z"
    /\ pc["r1"] = "raised"
    /\ Len(runs["r1"].node_executions) = 2
    /\ runs["r1"].node_executions[2].node_id = "B"
    /\ runs["r1"].node_executions[2].status = "completed"
    /\ Len(events) = 6
    /\ events[6].event_type = "workflow_failed"
    /\ events[6].error = "Node not found"

\* some node spec of def has no id or no tool, or some edge spec no from or
\* no to
LacksField(def) ==
    \/ \E i \in DOMAIN def.nodes :
            "id" \notin DOMAIN def.nodes[i] \/ "tool" \notin DOMAIN def.nodes[i]
    \/ \E i \in DOMAIN def.edges :
            "from" \notin DOMAIN def.edges[i] \/ "to" \notin DOMAIN def.edges[i]

\* C26: a call of create_graph on a definition in which a node spec lacks
\* id or tool, or an edge spec lacks from or to, raises: it returns no graph
\* id, leaves the graph table as it was, and starts and executes nothing
C26_MalformedDefinitionCreatesNothing ==
    [][\A def \in CreateDefinitions :
            (LacksField(def) /\ CreateGraph(def))
                => /\ reply'.graph_id = Null
                   /\ reply'.error # Null
                   /\ graphs' = graphs
                   /\ runs' = runs
                   /\ events' = events
                   /\ store' = store
                   /\ pc' = pc]_vars

\* a second create_graph call has failed on a table that holds a graph
C26_Witness ==
    /\ reply.call = "create_graph"
    /\ reply.error = "KeyError"
    /\ DOMAIN graphs = {"g1"}
    /\ DOMAIN graphs["g1"].nodes = {"A", "B"}

\* the definition names a start node: start_node is present and not empty
GivesStartNode(def) == def.start_node # Null /\ def.start_node # ""

\* the start node that the claim requires of a graph built from def
RequiredStartNode(def) ==
    IF GivesStartNode(def) THEN def.start_node
    ELSE IF def.nodes # <<>> THEN def.nodes[1].id
    ELSE Null

\* C27: a graph built from a definition that gives no start node starts at
\* the first node of the definition, a graph built from one that gives a
\* start node starts at that node; and the first node a run executes is the
\* start node of its graph
C27_StartNodeRule ==
    /\ [][\A def \in CreateDefinitions :
            (CreateGraph(def) /\ reply'.graph_id # Null)
                => graphs'[reply'.graph_id].start_node = RequiredStartNode(def)]_vars
    /\ [](\A r \in DOMAIN runs :
            runs[r].node_executions # <<>>
                => runs[r].node_executions[1].node_id
                        = graphs[runs[r].graph_id].start_node)

\* a graph whose definition names its second node as start node has been
\* created after one without a start node, and a run of it has executed
\* that node first and the first node after it
C27_Witness ==
    /\ DOMAIN graphs = {"g1", "g2"}
    /\ graphs["g1"].start_node = "A"
    /\ graphs["g2"].start_node = "B"
    /\ "r1" \in DOMAIN runs
    /\ runs["r1"].graph_id = "g2"
    /\ Len(runs["r1"].node_executions) = 2
    /\ runs["r1"].node_executions[1].node_id = "B"
    /\ runs["r1"].node_executions[2].node_id = "A"

\* the event that a step appends to the log
Emitted == events'[Len(events')]

\* the step saves the run of the event it emits, or its save fails
SavesRun(run_id) ==
    \/ store' = SaveWorkflowRun(store, runs'[run_id]) /\ save_failures' = save_failures
    \/ store' = store /\ save_failures' = save_failures + 1

\* C28: the run is saved with each node_completed, workflow_completed and
\* workflow_failed event and with no workflow_started, node_started or
\* node_failed event; a save that fails leaves the coroutine of the run on
\* its way (no exception reaches it)
C28_PersistenceCheckpoints ==
    [][events' # events =>
            /\ Emitted.event_type \in {"node_completed", "workflow_completed",
                                 "workflow_failed"}
                    => SavesRun(Emitted.run_id)
            /\ Emitted.event_type \in {"workflow_started", "node_started",
                                 "node_failed"}
                    => store' = store /\ save_failures' = save_failures
            /\ save_failures' # save_failures => exc' = exc]_vars

\* a DELETE /graph/{graph_id} request for graph_id has returned with success
DeleteReturned(graph_id) ==
    /\ reply.call = "delete_graph"
    /\ reply.graph_id = graph_id
    /\ reply.error = Null

\* C29: once DELETE of a graph has returned, the store holds no record of
\* the graph and no run (with its node executions) of that graph, whether a
\* run of the graph was executing at the time of the delete or not
C29_DeleteGraphCascades ==
    \A graph_id \in DeleteGraphIds :
        DeleteReturned(graph_id)
            => /\ graph_id \notin DOMAIN graph_store
               /\ \A r \in DOMAIN store.workflow_runs :
                    store.workflow_runs[r].graph_id # graph_id
               /\ \A i \in DOMAIN store.node_executions :
                    LET run_id == store.node_executions[i].run_id
                    IN  run_id \in DOMAIN store.workflow_runs
                            => store.workflow_runs[run_id].graph_id # graph_id

\* C30: a run that was saved and is then loaded comes back with the same
\* status, the same current state data and the same node executions in the
\* same order; however often it was saved, the store holds one row of the
\* run and as many execution rows as the run has executions
C30_StoreRoundTrip ==
    \A r \in DOMAIN store.workflow_runs :
        /\ Len(ExecutionRowsOf(store, r)) = Len(runs[r].node_executions)
        /\ (reply.call = "get_workflow_run" /\ reply.run # NoRun)
                => /\ reply.run.status = runs[r].status
                   /\ reply.run.current_state = runs[r].current_state
                   /\ reply.run.node_executions = runs[r].node_executions

\* run r has reached the status completed or failed
Terminated(r) == r \in DOMAIN runs /\ runs[r].status \in {"completed", "failed"}

\* C31: with tools and listeners that return, every run that run_workflow
\* has started reaches the status completed or failed, on graphs with
\* unconditional cycles too, and keeps it
C31_EveryRunTerminates ==
    \A r \in EngineRuns : [](r \in DOMAIN runs => <>[]Terminated(r))

\* a run of a graph with a cycle has ended after the loop guard stopped it
C31_Witness ==
    /\ Terminated("r1")
    /\ runs["r1"].status = "completed"
    /\ Len(runs["r1"].node_executions) = LoopLimit
    /\ \E i, j \in DOMAIN runs["r1"].node_executions :
            i < j /\ runs["r1"].node_executions[i].node_id
                        = runs["r1"].node_executions[j].node_id

\* the graph that from_definition built from the stored definition of "g1"
BuiltGraph == FromDefinition(graph_store["g1"])

LastExecuted(r) ==
    LET executions == runs[r].node_executions
    IN  IF executions = <<>> THEN Null
        ELSE executions[Len(executions)].node_id

\* C35: a run of the summarization workflow that has the status completed
\* has executed the node finish last, whatever quality_check returned for
\* needs_refinement
C35_CompletedRunFinished ==
    \A r \in EngineRuns :
        (r \in DOMAIN runs /\ runs[r].status = "completed")
            => LastExecuted(r) = "finish"

\* C33: the tool of a node is called with its "$state." parameters resolved
\* on the state before the node's result; when the tool has returned, the
\* result is merged into current_state, and only then are the edges that
\* leave the node evaluated, on the state that holds the result
C33_RoutingSeesResult ==
    [][\A r \in EngineRuns :
        LET node_id == current_node[r]
            data == runs[r].current_state
            executed == runs'[r].node_executions[Len(runs'[r].node_executions)]
            last == runs[r].node_executions[LastIndex(r)]
            next_nodes == GetNextNodes(GraphOf(r), node_id, data)
        IN  /\ (pc[r] = "tool" /\ pc'[r] = "route") =>
                    /\ executed.node_id = node_id
                    /\ kwargs[r] = ResolveParams(
                            GraphOf(r).nodes[node_id].params, data)
                    /\ runs'[r].current_state
                            = ApplyResult(data, node_id, executed.output.result)
            /\ (pc[r] = "route" /\ pc'[r] \in {"loop", "returned"}) =>
                    /\ last.node_id = node_id
                    /\ data = ApplyResult(data, node_id, last.output.result)
                    /\ pc'[r] = AfterRoute(next_nodes)
                    /\ next_nodes # <<>> =>
                            current_node'[r] = SelectNext(next_nodes)]_vars

\* node C was called with x = 1, set x to 2, and the edge out of C, which
\* is taken when x is 2, led the run to B
C33_Witness ==
    /\ pc["r1"] = "loop"
    /\ current_node["r1"] = "B"
    /\ kwargs["r1"] = ("v" :> PyInt(1))
    /\ runs["r1"].node_executions[LastIndex("r1")].node_id = "C"
    /\ runs["r1"].current_state["x"] = PyInt(2)

\* C34: a record of a run beyond the tenth is for a node that has no
\* earlier record in the run, so a run has at most ten records and one for
\* each node first executed after them; a completed run of the graph
\* that is one node with an unconditional edge to itself has exactly ten
C34_LoopGuardInvariant ==
    \A r \in DOMAIN runs :
        LET executions == runs[r].node_executions
            late == {i \in DOMAIN executions : i > LoopLimit}
        IN  /\ \A i \in late : \A j \in 1..(i - 1) :
                    executions[j].node_id # executions[i].node_id
            /\ Len(executions)
                    <= LoopLimit + Cardinality({executions[i].node_id : i \in late})
            /\ ( /\ runs[r].status = "completed"
                 /\ DOMAIN GraphOf(r).nodes = {"A"}
                 /\ \E i \in DOMAIN GraphOf(r).edges :
                        GraphOf(r).edges[i]
                            = Edge(EdgeDef("A", "A", NoCondition)) )
                    => Len(executions) = LoopLimit

\* after nine nodes of the chain and A, the eleventh record of the run is
\* for B, which is new; the run ended when A came up again
C34_Witness ==
    /\ "r1" \in DOMAIN runs
    /\ runs["r1"].status = "completed"
    /\ Len(runs["r1"].node_executions) = LoopLimit + 1
    /\ runs["r1"].node_executions[LoopLimit].node_id = "A"
    /\ runs["r1"].node_executions[LoopLimit + 1].node_id = "B"

\* what the tools of run r did: the node, the status and the output of each
\* record; no record for a run that was never created
ToolOutcomes(r) ==
    IF r \notin DOMAIN runs THEN <<>>
    ELSE [i \in DOMAIN runs[r].node_executions |->
            <<runs[r].node_executions[i].node_id,
              runs[r].node_executions[i].status,
              runs[r].node_executions[i].output>>]

\* the events of run r without the run id
AnonymousEvents(r) ==
    [i \in DOMAIN EventsOf(r) |-> [EventsOf(r)[i] EXCEPT !.run_id = Null]]

\* C36: the background path does what Engine.run_workflow does.  When a run
\* of each path has ended, from the same graph id and initial state, with
\* the same tool results and without a failed save or listener, the two
\* runs have emitted the same events and have left the same run record in
\* engine.runs, or none, for an unknown graph id too.
C36_BackgroundPathEquivalent ==
    ( /\ Ended("r1") /\ Ended("r2")
      /\ path["r1"] = "engine" /\ path["r2"] = "async"
      /\ SameRequest("r1", "r2")
      /\ ToolOutcomes("r1") = ToolOutcomes("r2")
      /\ save_failures = 0 /\ listener_errors = {} )
    => /\ AnonymousEvents("r1") = AnonymousEvents("r2")
       /\ ("r1" \in DOMAIN runs) <=> ("r2" \in DOMAIN runs)
       /\ ("r1" \in DOMAIN runs /\ "r2" \in DOMAIN runs) =>
            /\ runs["r1"].status = runs["r2"].status
            /\ runs["r1"].error = runs["r2"].error
            /\ runs["r1"].current_state = runs["r2"].current_state
            /\ runs["r1"].node_executions = runs["r2"].node_executions
            /\ runs["r1"].current_node = runs["r2"].current_node

\* the workflow_completed and workflow_failed events of run r
TerminalEvents(r) ==
    SelectSeq(EventsOf(r), LAMBDA e :
        e.event_type \in {"workflow_completed", "workflow_failed"})

\* C37: a run started through the background path ends with exactly one
\* terminal event, workflow_completed for a completed run and
\* workflow_failed for a failed one, and its task never ends with an
\* exception that nothing handles, whatever the tools and the saves do
C37_BackgroundRunAnnounced ==
    \A r \in AsyncRuns :
        /\ [](pc[r] # "crashed")
        /\ [](Len(TerminalEvents(r)) <= 1)
        /\ (pc[r] = "scheduled") ~>
                /\ Ended(r)
                /\ Len(TerminalEvents(r)) = 1
                /\ TerminalEvents(r)[1].event_type
                        = "workflow_" \o runs[r].status

\* C38: a node whose tool fails leaves the state as it was.  The data of
\* current_state change in one step only, the one in which the tool of the
\* current node has returned and the node completes: not when the node is
\* started, not while its tool is called, not when the tool fails, and not
\* in any step of the failed run after that.
C38_FailedNodeLeavesState ==
    [][\A r \in DOMAIN runs :
        (runs'[r].current_state # runs[r].current_state)
            => /\ pc[r] = "tool"
               /\ runs'[r].node_executions[LastIndex(r)].node_id
                    = current_node[r]
               /\ runs'[r].node_executions[LastIndex(r)].status = "completed"
      ]_vars

\* the run has failed in node B, whose tool failed, and holds the state
\* that node A left
C38_Witness ==
    /\ "r1" \in DOMAIN runs
    /\ runs["r1"].status = "failed"
    /\ runs["r1"].error = "Tool failed"
    /\ Len(runs["r1"].node_executions) = 2
    /\ LastExecution("r1").node_id = "B"
    /\ LastExecution("r1").status = "failed"
    /\ runs["r1"].current_state = ("x" :> PyInt(1))

\* the node ids and statuses of the executions of a run, in order
IdsAndStatuses(run) ==
    [i \in DOMAIN run.node_executions |->
        <<run.node_executions[i].node_id, run.node_executions[i].status>>]

\* C39: with the persistence listener registered and no save failed, once
\* the terminal event of a run has been handled, get_workflow_run returns
\* the run with the status, the error and the state data that the run of
\* the engine has, and with its executions, by id and status, in the same
\* order; so the store holds no other status of a run that is over
C39_StoreMirrorsRun ==
    \A r \in DOMAIN runs :
        ( /\ Ended(r)
          /\ save_failures = 0
          /\ \E i \in DOMAIN event_listeners :
                event_listeners[i] = "workflow_event_listener" )
        => \A loaded \in GetWorkflowRun(store, r) :
                /\ loaded # NoRun
                /\ loaded.status = runs[r].status
                /\ loaded.error = runs[r].error
                /\ loaded.current_state = runs[r].current_state
                /\ IdsAndStatuses(loaded) = IdsAndStatuses(runs[r])

\* C40: between the steps of the engine every run has completed_at set
\* exactly when its status is completed or failed and an error exactly when
\* it is failed; every execution has completed_at set exactly when its
\* status is completed or failed, an error exactly when it is failed and an
\* output exactly when it is completed
C40_RecordsConsistent ==
    \A r \in DOMAIN runs :
        /\ runs[r].completed_at # Null
                <=> runs[r].status \in {"completed", "failed"}
        /\ runs[r].error # Null <=> runs[r].status = "failed"
        /\ \A i \in DOMAIN runs[r].node_executions :
            LET execution == runs[r].node_executions[i]
            IN  /\ execution.completed_at # Null
                        <=> execution.status \in {"completed", "failed"}
                /\ execution.error # Null <=> execution.status = "failed"
                /\ execution.output # NoOutput
                        <=> execution.status = "completed"

\* the run of the engine's path has completed with a completed execution;
\* the run of the background path completed too, and became failed when the
\* save of the completed run raised
C40_Witness ==
    /\ DOMAIN runs = {"r1", "r2"}
    /\ runs["r1"].status = "completed"
    /\ LastExecution("r1").status = "completed"
    /\ runs["r2"].status = "failed"
    /\ runs["r2"].error = "Save failed"
    /\ LastExecution("r2").status = "completed"
    /\ Ended("r2")

====
